---------------------------- MODULE Spec2Model ----------------------------
(***************************************************************************)
(* httpmonitor: the aggregation-and-alerting pipeline.                     *)
(*                                                                         *)
(*   reader --logs--> collector.process --hits--> windowedAverager         *)
(*                         |                          |  (quantize, tick)  *)
(*                         +--- Monitor.summary ------+                    *)
(*                              Monitor.alert  -------+                    *)
(*                                                                         *)
(* Time is a discrete clock `now`, counted in seconds since Monitor.Start.  *)
(* A Go ticker is a channel of capacity one that the runtime fills at      *)
(* every period and whose tick is dropped when the previous one was not    *)
(* consumed.                                                               *)
(*                                                                         *)
(* The critical sections of windowedAverager.mu contain no blocking        *)
(* operation, so each of them is one atomic action.  collector.process     *)
(* blocks on the hits channel while holding the collector's lock, so the   *)
(* collector's RWMutex is modelled explicitly.                             *)
(*                                                                         *)
(* The counters are uint64 in the source; every run of the model keeps     *)
(* them far below 2^64, so no wrap-around is modelled.                     *)
(***************************************************************************)
EXTENDS Integers, Sequences, FiniteSets, TLC

(***************************************************************************)
(* Bounds of the model.                                                    *)
(***************************************************************************)
\* the clock stops advancing at MaxTime
MaxTime == 6
\* at most MaxRecords log records are delivered to the collector
MaxRecords == 3
\* capacity of the hits channel (1024 in the source), scaled down
HitsCap == 2

(***************************************************************************)
(* Program constants.                                                      *)
(***************************************************************************)
\* const quantum = time.Second (the clock counts seconds)
quantum == 1
\* the zero time.Time (year 1), the timestamp of a record whose date did not
\* parse: far before any instant of the run
ZeroTime == -1000
\* processSize rotates the size histogram every 100000 records
RotateEvery == 100000
\* hdrhistogram.NewWindowed(3, ...): three histograms in the window
NumHist == 3
\* 1<<63 - 1, what strconv.ParseInt returns on a range error: the integers
\* of the model are narrower than int64, the largest of them stands for it
MaxInt64 == 2147483647

VARIABLES
  opts,        \* MonitorOpts: AlertWindow (seconds), AlertThreshold (hits/s)
  feed,        \* the records the log file can hold (set of log records)
  scen,        \* the rates of a generated feed (see SpecScenario)
  now,         \* the clock
  \* ---- the log file and clfReader.read
  file,        \* the file: sequence of [line, done]; done = the newline is written
  rpos,        \* the lines read() has consumed
  rpart,       \* read() has consumed the written part of line rpos + 1
  rl,          \* the record read() is sending (a singleton sequence, or <<>>)
  events,      \* watcher.Events: the notifications not yet received
  \* ---- reader (position) and shutdown
  rpc,         \* clfReader.read: "unstarted" | "read" | "send" | "wait" | "done"
  rclose,      \* clfReader.close is closed
  mclose,      \* Monitor.close is closed
  stpc,        \* Monitor.Stop: "idle" | "closing" | "done" | "panic"
  xpc,         \* a second call of Monitor.Stop, from outside Start:
               \* "idle" | "closing" | "done" | "panic"
  mst,         \* Monitor.Start: [pc |-> "start" | "running" | "stop" | "returned",
               \*   file |-> "ok" | "missing" (os.Open fails), err |-> it returns an error]
  \* ---- collector
  mu,          \* collector.RWMutex: [w |-> writer holds it, r |-> number of readers]
  cpc,         \* collector.Start/process position
  cur,         \* the record being processed (a singleton sequence, or <<>>)
  count, topSections, ipHll, sizeHist, statusFreq,
  hits,        \* the hits channel: timestamps in flight
  \* ---- windowedAverager
  buckets,     \* ring of optional counters: <<>> is nil, <<n>> points to n
  idx,         \* cursor
  qpc, qhit,   \* quantize goroutine: "recv" | "inc", and the hit in hand
  tickC, tpc,  \* the averager's ticker channel, and tick goroutine: "select" | "update"
  \* ---- Monitor.alert
  alertC, apc, alerted,
  stdout,      \* what was printed: sequence of lines
  \* ---- Monitor.report / summary
  reportC, spc, s,
  \* ---- history (not program state)
  quanta,      \* quanta[k]: increments applied between tick k-1 and tick k
  sent,        \* what read() has sent on c.logs: [at |-> line position, l |-> record]
  snaps        \* for every call of summary, count when it took the lock

avars   == <<buckets, idx, qpc, qhit, tickC, tpc, quanta>>
cvars   == <<mu, cpc, cur, count, topSections, ipHll, sizeHist, statusFreq, hits>>
alvars  == <<alertC, apc, alerted>>
svars   == <<reportC, spc, s, snaps>>
rvars   == <<rpc, rclose, mclose, stpc, xpc, mst>>
fvars   == <<file, rpos, rpart, rl, events, sent>>
vars    == <<opts, feed, scen, fvars, now, rvars, cvars, avars, alvars, stdout, svars>>

(***************************************************************************)
(* float64 values are kept as exact fractions num/den with den >= 0;       *)
(* 0/0 is NaN, for which every comparison is false.                        *)
(***************************************************************************)
Float(n, d) == [num |-> n, den |-> d]
IsNaN(x)    == x.den = 0 /\ x.num = 0
\* x > t and x <= t for a float x and an integer-valued float t
FloatGt(x, t) == x.den > 0 /\ x.num > t * x.den
FloatLe(x, t) == x.den > 0 /\ x.num <= t * x.den

(***************************************************************************)
(* windowedAverager                                                        *)
(***************************************************************************)
Nil == <<>>
Ptr(n) == <<n>>
Deref(b) == b[1]

\* (a ring without the extra slot for the bucket in progress)
newBuckets_NoExtraSlot(window, q) == [i \in 0..((window \div q) - 1) |-> Nil]

\* make([]*uint64, int(window/quantum)+1)
newBuckets(window, q) == [i \in 0..(window \div q) |-> Nil]
len(bs) == Cardinality(DOMAIN bs)

\* (a loop that does not skip the current bucket)
RECURSIVE averageLoop_WithCurrent(_, _, _, _, _)
averageLoop_WithCurrent(bs, cursor, i, sum, cnt) ==
  IF i >= len(bs) THEN [sum |-> sum, count |-> cnt]
  ELSE IF bs[i] # Nil
    THEN averageLoop_WithCurrent(bs, cursor, i + 1, sum + Deref(bs[i]), cnt + 1)
  ELSE averageLoop_WithCurrent(bs, cursor, i + 1, sum, cnt)

\* the loop of average(): i runs over the ring, the current bucket and nil
\* buckets are skipped
RECURSIVE averageLoop(_, _, _, _, _)
averageLoop(bs, cursor, i, sum, cnt) ==
  IF i >= len(bs) THEN [sum |-> sum, count |-> cnt]
  ELSE IF i = cursor THEN averageLoop(bs, cursor, i + 1, sum, cnt)
  ELSE IF bs[i] # Nil THEN averageLoop(bs, cursor, i + 1, sum + Deref(bs[i]), cnt + 1)
  ELSE averageLoop(bs, cursor, i + 1, sum, cnt)

\* (an average that is 0 when no bucket is counted)
averageOf_ZeroWhenEmpty(bs, cursor) ==
  LET r == averageLoop(bs, cursor, 0, 0, 0)
  IN  IF r.count = 0 THEN Float(0, 1) ELSE Float(r.sum, r.count * quantum)

\* float64(sum) / (float64(count) * w.quantum.Seconds())
averageOf(bs, cursor) ==
  LET r == averageLoop(bs, cursor, 0, 0, 0)
  IN  Float(r.sum, r.count * quantum)

average == averageOf(buckets, idx)

\* (the current bucket instead of the one before it)
latestOf_Current(bs, cursor) ==
  IF bs[cursor] = Nil THEN 0 ELSE Deref(bs[cursor])

latestOf(bs, cursor) ==
  LET lastIdx == ((cursor - 1) + len(bs)) % len(bs)
  IN  IF bs[lastIdx] = Nil THEN 0 ELSE Deref(bs[lastIdx])

latest == latestOf(buckets, idx)

\* (a hit exactly window old counted as too old)
tooOld_Inclusive(hit, t, window) == hit <= t - window

\* (a quantizer that drops no hit)
tooOld_Never(hit, t, window) == FALSE

\* hit.Before(time.Now().Add(-w.window))
tooOld(hit, t, window) == hit < t - window

\* the locked section of quantize: the current bucket is allocated if nil,
\* then incremented
incremented(bs, cursor) ==
  [bs EXCEPT ![cursor] = IF bs[cursor] = Nil THEN Ptr(1) ELSE Ptr(Deref(bs[cursor]) + 1)]

\* the locked section of tick
nextIdx(bs, cursor) == (cursor + 1) % len(bs)

\* (a tick that keeps the count the new bucket held a cycle earlier)
ticked_KeepCount(bs, cursor) ==
  [bs EXCEPT ![nextIdx(bs, cursor)] = IF @ = Nil THEN Ptr(0) ELSE @]

\* (a tick that frees the bucket it leaves)
ticked_FreeOld(bs, cursor) ==
  [bs EXCEPT ![nextIdx(bs, cursor)] = Ptr(0), ![cursor] = Nil]

\* (the bucket that was current is reset, not the new one)
ticked_ResetOld(bs, cursor) == [bs EXCEPT ![cursor] = Ptr(0)]

ticked(bs, cursor) == [bs EXCEPT ![nextIdx(bs, cursor)] = Ptr(0)]

\* for hit := range hits { if hit.Before(...) { continue } ...
QuantizeRecv ==
  /\ qpc = "recv"
  /\ hits # <<>>
  /\ hits' = Tail(hits)
  /\ IF tooOld(Head(hits), now, opts.AlertWindow)
       THEN UNCHANGED <<qpc, qhit>>
       ELSE qpc' = "inc" /\ qhit' = <<Head(hits)>>
  /\ UNCHANGED <<buckets, idx, tickC, tpc, quanta>>
  /\ UNCHANGED <<mu, cpc, cur, count, topSections, ipHll, sizeHist, statusFreq>>
  /\ UNCHANGED <<opts, feed, scen, fvars, now, rvars, alvars, stdout, svars>>

\* if w.buckets[w.idx] == nil { ... }; *w.buckets[w.idx]++; w.mu.Unlock(),
\* by the quantizer at position at
QuantizeIncAt(at) ==
  /\ qpc = at
  /\ buckets' = incremented(buckets, idx)
  /\ quanta' = [quanta EXCEPT ![Len(quanta)] = @ + 1]
  /\ qpc' = "recv"
  /\ qhit' = <<>>
  /\ UNCHANGED <<idx, tickC, tpc>>
  /\ UNCHANGED <<opts, feed, scen, fvars, now, rvars, cvars, alvars, stdout, svars>>

\* w.mu.Lock(); ...; *w.buckets[w.idx]++; w.mu.Unlock()
QuantizeInc == QuantizeIncAt("inc")

\* select { case <-t.C: ... }
TickRecv ==
  /\ tpc = "select"
  /\ tickC
  /\ tickC' = FALSE
  /\ tpc' = "update"
  /\ UNCHANGED <<buckets, idx, qpc, qhit, quanta>>
  /\ UNCHANGED <<opts, feed, scen, fvars, now, rvars, cvars, alvars, stdout, svars>>

\* w.idx = (w.idx + 1) % len(w.buckets); w.buckets[w.idx] = &0;
\* w.mu.Unlock(), by the ticker loop at position at
TickUpdateAt(at) ==
  /\ tpc = at
  /\ idx' = nextIdx(buckets, idx)
  /\ buckets' = ticked(buckets, idx)
  /\ quanta' = Append(quanta, 0)
  /\ tpc' = "select"
  /\ UNCHANGED <<qpc, qhit, tickC>>
  /\ UNCHANGED <<opts, feed, scen, fvars, now, rvars, cvars, alvars, stdout, svars>>

\* w.mu.Lock(); w.idx = (w.idx + 1) % len(w.buckets); w.buckets[w.idx] = &0
TickUpdate == TickUpdateAt("update")

(***************************************************************************)
(* The clock and the three tickers: the averager's (every quantum), the    *)
(* alert loop's (every 2 quanta) and the report loop's.                    *)
(***************************************************************************)
alertPeriod == quantum * 2

Advance ==
  /\ now' = now + 1
  /\ tickC' = (tickC \/ (now' % quantum = 0))
  /\ alertC' = (alertC \/ (now' % alertPeriod = 0))
  /\ reportC' = (reportC \/ (now' % opts.ReportingInterval = 0))
  /\ UNCHANGED <<buckets, idx, qpc, qhit, tpc, quanta>>
  /\ UNCHANGED <<apc, alerted, spc, s, snaps>>
  /\ UNCHANGED <<opts, feed, scen, fvars, rvars, cvars, stdout>>


(***************************************************************************)
(* collector                                                               *)
(***************************************************************************)
\* add one occurrence of k to a table of counts (TopK.Add, the histogram's
\* RecordValue): the libraries' estimators are modelled by exact counts
addTo(f, k) ==
  IF k \in DOMAIN f THEN [f EXCEPT ![k] = @ + 1]
  ELSE [x \in DOMAIN f \cup {k} |-> IF x = k THEN 1 ELSE f[x]]

Empty == [x \in {} |-> 0]

\* the positions of '/' in document, in increasing order
slashIndexes(document) == {i \in 1..Len(document) : document[i] = "/"}

\* (a section that keeps the second '/')
sectionFromDocument_WithSlash(document) ==
  LET si == slashIndexes(document)
  IN  IF Cardinality(si) <= 1 THEN <<"/">>
      ELSE LET first  == CHOOSE i \in si : \A j \in si : i <= j
               second == CHOOSE i \in si \ {first} : \A j \in si \ {first} : i <= j
           IN  SubSeq(document, 1, second)

\* sectionFromDocument: what is before the second '/'
sectionFromDocument(document) ==
  LET si == slashIndexes(document)
  IN  IF Cardinality(si) <= 1 THEN <<"/">>
      ELSE LET first  == CHOOSE i \in si : \A j \in si : i <= j
               second == CHOOSE i \in si \ {first} : \A j \in si \ {first} : i <= j
           IN  SubSeq(document, 1, second - 1)

\* (a malformed request counted under "/")
processRequest_RootOnError(top, request) ==
  IF ~request.ok THEN addTo(top, <<"/">>)
  ELSE addTo(top, sectionFromDocument(request.document))

\* (a table keyed by the whole document)
processRequest_Document(top, request) ==
  IF ~request.ok THEN top ELSE addTo(top, request.document)

\* processRequest: a request line is [ok |-> requestRegexp matches it,
\* document |-> parts[2]]
processRequest(top, request) ==
  IF ~request.ok THEN top ELSE addTo(top, sectionFromDocument(request.document))

\* processIP
processIP(hll, ip) == hll \cup {ip}

\* hdrhistogram.WindowedHistogram: Current is h[idx % len(h)]
newSizeHist == [idx |-> 0, h |-> [i \in 0..(NumHist - 1) |-> Empty]]
rotate(w) ==
  [idx |-> w.idx + 1, h |-> [w.h EXCEPT ![(w.idx + 1) % NumHist] = Empty]]

\* Histogram.RecordValue: a value above the histogram's range is not
\* recorded (the error is dropped).  maxRecordableSize is 10^12: every size
\* of the model is below it, except the one that stands for the largest
\* int64
recordValue(h, v) == IF v = MaxInt64 THEN h ELSE addTo(h, v)

\* (a rotation before the size is recorded)
processSize_RotateFirst(w, size, n) ==
  LET rot == IF n % RotateEvery = 0 THEN rotate(w) ELSE w
  IN  [rot EXCEPT !.h[rot.idx % NumHist] = recordValue(@, size)]

\* processSize: called after count was incremented
processSize(w, size, n) ==
  LET rec == [w EXCEPT !.h[w.idx % NumHist] = recordValue(@, size)]
  IN  IF n % RotateEvery = 0 THEN rotate(rec) ELSE rec

\* WindowedHistogram.Merge: the sum of the histograms of the window
RECURSIVE mergeLoop(_, _, _)
mergeLoop(w, i, m) ==
  IF i >= NumHist THEN m
  ELSE LET hi == w.h[i]
           keys == DOMAIN m \cup DOMAIN hi
       IN  mergeLoop(w, i + 1,
             [k \in keys |-> (IF k \in DOMAIN m THEN m[k] ELSE 0)
                           + (IF k \in DOMAIN hi THEN hi[k] ELSE 0)])
merge(w) == mergeLoop(w, 0, Empty)

newStatusFreq ==
  [Informational |-> 0, Successful |-> 0, Redirection |-> 0,
   ClientError |-> 0, ServerError |-> 0]

\* (a switch whose first case includes its upper limit)
processStatus_Inclusive(f, status) ==
  IF status >= 100 /\ status <= 200 THEN [f EXCEPT !.Informational = @ + 1]
  ELSE IF status >= 200 /\ status < 300 THEN [f EXCEPT !.Successful = @ + 1]
  ELSE IF status >= 300 /\ status < 400 THEN [f EXCEPT !.Redirection = @ + 1]
  ELSE IF status >= 400 /\ status < 500 THEN [f EXCEPT !.ClientError = @ + 1]
  ELSE IF status >= 500 /\ status < 600 THEN [f EXCEPT !.ServerError = @ + 1]
  ELSE f

\* (a switch whose last case has no lower and upper limit check)
processStatus_Default(f, status) ==
  IF status >= 100 /\ status < 200 THEN [f EXCEPT !.Informational = @ + 1]
  ELSE IF status >= 200 /\ status < 300 THEN [f EXCEPT !.Successful = @ + 1]
  ELSE IF status >= 300 /\ status < 400 THEN [f EXCEPT !.Redirection = @ + 1]
  ELSE IF status >= 400 /\ status < 500 THEN [f EXCEPT !.ClientError = @ + 1]
  ELSE [f EXCEPT !.ServerError = @ + 1]

\* processStatus
processStatus(f, status) ==
  IF status >= 100 /\ status < 200 THEN [f EXCEPT !.Informational = @ + 1]
  ELSE IF status >= 200 /\ status < 300 THEN [f EXCEPT !.Successful = @ + 1]
  ELSE IF status >= 300 /\ status < 400 THEN [f EXCEPT !.Redirection = @ + 1]
  ELSE IF status >= 400 /\ status < 500 THEN [f EXCEPT !.ClientError = @ + 1]
  ELSE IF status >= 500 /\ status < 600 THEN [f EXCEPT !.ServerError = @ + 1]
  ELSE f

\* (a write lock that does not wait for the readers)
Lockable_IgnoreReaders(m) == ~m.w

\* sync.RWMutex
Lockable(m)  == ~m.w /\ m.r = 0

\* (a read lock that does not wait for the writer)
RLockable_IgnoreWriter(m) == TRUE

RLockable(m) == ~m.w

\* for l := range logs: the reader hands one record over (c.logs is
\* unbuffered, the send and the receive are one step)
Deliver(l) ==
  /\ rpc = "read"
  /\ cpc = "range"
  /\ cur' = <<l>>
  /\ cpc' = "lock"
  /\ UNCHANGED <<mu, count, topSections, ipHll, sizeHist, statusFreq, hits>>
  /\ UNCHANGED <<opts, feed, scen, fvars, now, rvars, avars, alvars, stdout, svars>>

\* c.Lock(); c.count++
ProcessLock ==
  /\ cpc = "lock"
  /\ Lockable(mu)
  /\ mu' = [mu EXCEPT !.w = TRUE]
  /\ count' = count + 1
  /\ cpc' = "send"
  /\ UNCHANGED <<cur, topSections, ipHll, sizeHist, statusFreq, hits>>
  /\ UNCHANGED <<opts, feed, scen, fvars, now, rvars, avars, alvars, stdout, svars>>

\* hits <- l.timestamp (blocks while the channel is full)
ProcessSend ==
  /\ cpc = "send"
  /\ Len(hits) < HitsCap
  /\ hits' = Append(hits, cur[1].timestamp)
  /\ cpc' = "request"
  /\ UNCHANGED <<mu, cur, count, topSections, ipHll, sizeHist, statusFreq>>
  /\ UNCHANGED <<opts, feed, scen, fvars, now, rvars, avars, alvars, stdout, svars>>

ProcessRequest ==
  /\ cpc = "request"
  /\ topSections' = processRequest(topSections, cur[1].request)
  /\ cpc' = "ip"
  /\ UNCHANGED <<mu, cur, count, ipHll, sizeHist, statusFreq, hits>>
  /\ UNCHANGED <<opts, feed, scen, fvars, now, rvars, avars, alvars, stdout, svars>>

ProcessIP ==
  /\ cpc = "ip"
  /\ ipHll' = processIP(ipHll, cur[1].remoteAddr)
  /\ cpc' = "size"
  /\ UNCHANGED <<mu, cur, count, topSections, sizeHist, statusFreq, hits>>
  /\ UNCHANGED <<opts, feed, scen, fvars, now, rvars, avars, alvars, stdout, svars>>

ProcessSize ==
  /\ cpc = "size"
  /\ sizeHist' = processSize(sizeHist, cur[1].size, count)
  /\ cpc' = "status"
  /\ UNCHANGED <<mu, cur, count, topSections, ipHll, statusFreq, hits>>
  /\ UNCHANGED <<opts, feed, scen, fvars, now, rvars, avars, alvars, stdout, svars>>

\* c.processStatus(l.status); c.Unlock()
ProcessStatus ==
  /\ cpc = "status"
  /\ statusFreq' = processStatus(statusFreq, cur[1].status)
  /\ mu' = [mu EXCEPT !.w = FALSE]
  /\ cur' = <<>>
  /\ cpc' = "range"
  /\ UNCHANGED <<count, topSections, ipHll, sizeHist, hits>>
  /\ UNCHANGED <<opts, feed, scen, fvars, now, rvars, avars, alvars, stdout, svars>>

\* One record from the reader's hand-over to the end of process, as a single
\* step: for the specifications in which nothing reads the collector's
\* fields while a record is being processed.
Process(l) ==
  /\ rpc = "read"
  /\ cpc = "range"
  /\ Lockable(mu)
  /\ Len(hits) < HitsCap
  /\ count' = count + 1
  /\ hits' = Append(hits, l.timestamp)
  /\ topSections' = processRequest(topSections, l.request)
  /\ ipHll' = processIP(ipHll, l.remoteAddr)
  /\ sizeHist' = processSize(sizeHist, l.size, count + 1)
  /\ statusFreq' = processStatus(statusFreq, l.status)
  /\ UNCHANGED <<mu, cpc, cur>>
  /\ UNCHANGED <<opts, feed, scen, fvars, now, rvars, avars, alvars, stdout, svars>>

(***************************************************************************)
(* Monitor.alert                                                           *)
(***************************************************************************)
\* select { case <-c: ... }
AlertRecv ==
  /\ apc = "select"
  /\ alertC
  /\ alertC' = FALSE
  /\ apc' = "eval"
  /\ UNCHANGED <<alerted, stdout>>
  /\ UNCHANGED <<opts, feed, scen, fvars, now, rvars, cvars, avars, svars>>

\* select { ... case <-m.close: return }
AlertClose ==
  /\ apc = "select"
  /\ mclose
  /\ apc' = "done"
  /\ UNCHANGED <<alertC, alerted, stdout>>
  /\ UNCHANGED <<opts, feed, scen, fvars, now, rvars, cvars, avars, svars>>

\* the two lines the alert loop prints; of a line the model keeps its kind
\* and the average it reports, not the text of the time
alertLine(avg)     == [kind |-> "alert", hits |-> avg]
recoveredLine(avg) == [kind |-> "recovered", hits |-> avg]

\* (an alert at the threshold itself)
shouldAlert_AtThreshold(avg, threshold, al) ==
  avg.den > 0 /\ avg.num >= threshold * avg.den /\ ~al

\* (an alert whatever the state of the loop)
shouldAlert_Stateless(avg, threshold, al) == FloatGt(avg, threshold)

\* the decision of the alert loop on the average it read
shouldAlert(avg, threshold, al)   == FloatGt(avg, threshold) /\ ~al
shouldRecover(avg, threshold, al) == FloatLe(avg, threshold) /\ al

\* the sum over the buckets of average(), its RUnlock, and the decision
\* on it, by the alert loop at position at
AlertEvalAt(at) ==
  /\ apc = at
  /\ LET avg == average
     IN  IF shouldAlert(avg, opts.AlertThreshold, alerted)
           THEN /\ stdout' = Append(stdout, alertLine(avg))
                /\ alerted' = TRUE
           ELSE IF shouldRecover(avg, opts.AlertThreshold, alerted)
             THEN /\ stdout' = Append(stdout, recoveredLine(avg))
                  /\ alerted' = FALSE
             ELSE UNCHANGED <<stdout, alerted>>
  /\ apc' = "select"
  /\ UNCHANGED alertC
  /\ UNCHANGED <<opts, feed, scen, fvars, now, rvars, cvars, avars, svars>>

\* avg = m.averager.average(); now = time.Now(); if ... else if ...
AlertEval == AlertEvalAt("eval")

(***************************************************************************)
(* Monitor.report and Monitor.summary                                      *)
(***************************************************************************)
\* &Summary{Timestamp: time.Now()}
newSummary(t) ==
  [Timestamp |-> t, TopSections |-> Empty, DistinctIPs |-> 0, SizeHist |-> Empty,
   StatusFreq |-> newStatusFreq, HitsPerSecond |-> 0, AvgHits |-> Float(0, 1),
   Window |-> 0]

\* select { case <-c: ... }
ReportRecv ==
  /\ spc = "select"
  /\ reportC
  /\ reportC' = FALSE
  /\ spc' = "rlock"
  /\ UNCHANGED <<s, snaps>>
  /\ UNCHANGED <<opts, feed, scen, fvars, now, rvars, cvars, avars, alvars, stdout>>

\* select { ... case <-m.close: return }
ReportClose ==
  /\ spc = "select"
  /\ mclose
  /\ spc' = "done"
  /\ UNCHANGED <<reportC, s, snaps>>
  /\ UNCHANGED <<opts, feed, scen, fvars, now, rvars, cvars, avars, alvars, stdout>>

\* s := &Summary{Timestamp: time.Now()}; m.RLock()
SummaryRLock ==
  /\ spc = "rlock"
  /\ RLockable(mu)
  /\ mu' = [mu EXCEPT !.r = @ + 1]
  /\ s' = newSummary(now)
  /\ snaps' = Append(snaps, count)
  /\ spc' = "top"
  /\ UNCHANGED reportC
  /\ UNCHANGED <<cpc, cur, count, topSections, ipHll, sizeHist, statusFreq, hits>>
  /\ UNCHANGED <<opts, feed, scen, fvars, now, rvars, avars, alvars, stdout>>

\* one line of summary that copies a field: s.<field> = value
SummaryCopy(at, field, value, to) ==
  /\ spc = at
  /\ s' = [s EXCEPT ![field] = value]
  /\ spc' = to
  /\ UNCHANGED <<reportC, snaps>>
  /\ UNCHANGED <<opts, feed, scen, fvars, now, rvars, cvars, avars, alvars, stdout>>

\* s.TopSections = m.topSections.Elements()
SummaryTop == SummaryCopy("top", "TopSections", topSections, "ips")
\* s.DistinctIPs = m.ipHll.Count()
SummaryIPs == SummaryCopy("ips", "DistinctIPs", Cardinality(ipHll), "size")
\* s.SizeHist = hdrhistogram.Import(m.sizeHist.Merge().Export())
SummarySize == SummaryCopy("size", "SizeHist", merge(sizeHist), "status")
\* s.StatusFreq = m.statusFreq
SummaryStatus == SummaryCopy("status", "StatusFreq", statusFreq, "latest")
\* s.HitsPerSecond = m.averager.latest()
SummaryLatest == SummaryCopy("latest", "HitsPerSecond", latest, "avg")
\* s.AvgHits = m.averager.average()
SummaryAvg == SummaryCopy("avg", "AvgHits", average, "window")

summaryLine(sum) == [kind |-> "summary", s |-> sum]

\* s.Window = m.opts.AlertWindow; return s (m.RUnlock() was deferred);
\* fmt.Println(m.summary())
SummaryReturn ==
  /\ spc = "window"
  /\ mu' = [mu EXCEPT !.r = @ - 1]
  /\ stdout' = Append(stdout, summaryLine([s EXCEPT !.Window = opts.AlertWindow]))
  /\ s' = newSummary(0)
  /\ spc' = "select"
  /\ UNCHANGED <<reportC, snaps>>
  /\ UNCHANGED <<cpc, cur, count, topSections, ipHll, sizeHist, statusFreq, hits>>
  /\ UNCHANGED <<opts, feed, scen, fvars, now, rvars, avars, alvars>>

(***************************************************************************)
(* Monitor.Stop and the reader's read loop leaving when its close channel  *)
(* is closed.  close() of a channel that is closed already panics.         *)
(***************************************************************************)
\* m.reader.Close(): c.watcher.Close(), which also closes watcher.Events and
\* watcher.Errors, and close(c.close)
StopReader ==
  /\ stpc = "idle"
  /\ stpc' = (IF rclose THEN "panic" ELSE "closing")
  /\ rclose' = TRUE
  /\ UNCHANGED <<rpc, mclose, xpc, mst>>
  /\ UNCHANGED <<opts, feed, scen, fvars, now, cvars, avars, alvars, stdout, svars>>

\* close(m.close)
StopClose ==
  /\ stpc = "closing"
  /\ stpc' = (IF mclose THEN "panic" ELSE "done")
  /\ mclose' = TRUE
  /\ UNCHANGED <<rpc, rclose, xpc, mst>>
  /\ UNCHANGED <<opts, feed, scen, fvars, now, cvars, avars, alvars, stdout, svars>>

\* the same two steps of a call of Stop from outside Start (a signal
\* handler, a deferred m.Stop())
ExternalStopReader ==
  /\ xpc = "idle"
  /\ xpc' = (IF rclose THEN "panic" ELSE "closing")
  /\ rclose' = TRUE
  /\ UNCHANGED <<rpc, mclose, stpc, mst>>
  /\ UNCHANGED <<opts, feed, scen, fvars, now, cvars, avars, alvars, stdout, svars>>

ExternalStopClose ==
  /\ xpc = "closing"
  /\ xpc' = (IF mclose THEN "panic" ELSE "done")
  /\ mclose' = TRUE
  /\ UNCHANGED <<rpc, rclose, stpc, mst>>
  /\ UNCHANGED <<opts, feed, scen, fvars, now, cvars, avars, alvars, stdout, svars>>

\* waitForLogs: case <-c.close (or the closed watcher.Errors): return
\* false, and the read loop breaks
ReaderExit ==
  /\ rpc = "wait"
  /\ rclose
  /\ rpc' = "done"
  /\ UNCHANGED <<rclose, mclose, stpc, xpc, mst>>
  /\ UNCHANGED <<opts, feed, scen, fvars, now, cvars, avars, alvars, stdout, svars>>

\* waitForLogs: case <-c.watcher.Events on the closed channel: return true,
\* and the read loop reads again
WaitClosed ==
  /\ rpc = "wait"
  /\ rclose
  /\ rpc' = "read"
  /\ UNCHANGED <<rclose, mclose, stpc, xpc, mst>>
  /\ UNCHANGED <<opts, feed, scen, fvars, now, cvars, avars, alvars, stdout, svars>>

(***************************************************************************)
(* Monitor.Start: collector.Start(m.reader), then m.Stop() and the return  *)
(* of the wrapped error.                                                   *)
(***************************************************************************)
\* (an error that is lost on the way to the caller)
Wrap_Nil(err) == FALSE

\* errors.Wrap(err, msg): nil for nil, an error for an error
Wrap(err) == err

\* reader.Open succeeds: go c.read(file); collector.Start makes hits, starts
\* quantize (which starts tick) and enters its range loop
OpenOk ==
  /\ mst.pc = "start"
  /\ mst.file = "ok"
  /\ mst' = [mst EXCEPT !.pc = "running"]
  /\ rpc' = "read"
  /\ cpc' = "range"
  /\ qpc' = "recv"
  /\ tpc' = "select"
  /\ UNCHANGED <<rclose, mclose, stpc, xpc>>
  /\ UNCHANGED <<mu, cur, count, topSections, ipHll, sizeHist, statusFreq, hits>>
  /\ UNCHANGED <<buckets, idx, qhit, tickC, quanta>>
  /\ UNCHANGED <<opts, feed, scen, fvars, now, alvars, stdout, svars>>

\* os.Open fails: Open returns the error without go c.read, and
\* collector.Start returns it wrapped, before anything else
OpenFail ==
  /\ mst.pc = "start"
  /\ mst.file = "missing"
  /\ mst' = [mst EXCEPT !.pc = "stop", !.err = Wrap(Wrap(TRUE))]
  /\ cpc' = "returned"
  /\ UNCHANGED <<rpc, rclose, mclose, stpc, xpc>>
  /\ UNCHANGED <<mu, cur, count, topSections, ipHll, sizeHist, statusFreq, hits>>
  /\ UNCHANGED <<opts, feed, scen, fvars, now, avars, alvars, stdout, svars>>

\* m.Stop() has returned: return errors.Wrap(err, "failed to start collector")
StartReturn ==
  /\ mst.pc = "stop"
  /\ stpc = "done"
  /\ mst' = [mst EXCEPT !.pc = "returned", !.err = Wrap(@)]
  /\ UNCHANGED <<rpc, rclose, mclose, stpc, xpc>>
  /\ UNCHANGED <<opts, feed, scen, fvars, now, cvars, avars, alvars, stdout, svars>>

(***************************************************************************)
(* clfReader: the lines of the file and their parsing.                     *)
(*                                                                         *)
(* A line is [clf |-> clfRegexp matches it, remoteAddr, date, request,     *)
(* status, size]: the fields are parts[1], parts[4] .. parts[7].  The      *)
(* status and the size are texts, sequences of characters; a date is       *)
(* [layout |-> time.Parse accepts it, at |-> the instant it names].        *)
(***************************************************************************)
Digit ==
  ("0" :> 0 @@ "1" :> 1 @@ "2" :> 2 @@ "3" :> 3 @@ "4" :> 4 @@
   "5" :> 5 @@ "6" :> 6 @@ "7" :> 7 @@ "8" :> 8 @@ "9" :> 9)

isDigits(txt) == txt # <<>> /\ \A i \in 1..Len(txt) : txt[i] \in DOMAIN Digit

RECURSIVE stripZeros(_)
stripZeros(txt) ==
  IF Len(txt) > 1 /\ txt[1] = "0" THEN stripZeros(Tail(txt)) ELSE txt

RECURSIVE decimal(_, _)
decimal(txt, acc) ==
  IF txt = <<>> THEN acc ELSE decimal(Tail(txt), 10 * acc + Digit[txt[1]])

\* 1<<63 - 1 in decimal
MaxInt64Text ==
  <<"9", "2", "2", "3", "3", "7", "2", "0", "3", "6",
    "8", "5", "4", "7", "7", "5", "8", "0", "7">>

\* a is greater than b, for digit texts of the same length
RECURSIVE lexGreater(_, _)
lexGreater(a, b) ==
  IF a = <<>> THEN FALSE
  ELSE IF a[1] # b[1] THEN Digit[a[1]] > Digit[b[1]]
  ELSE lexGreater(Tail(a), Tail(b))

\* the digits name a value above 1<<63 - 1
outOfRange(txt) ==
  LET d == stripZeros(txt)
  IN  \/ Len(d) > Len(MaxInt64Text)
      \/ Len(d) = Len(MaxInt64Text) /\ lexGreater(d, MaxInt64Text)

\* l.status, _ = strconv.Atoi(parts[6]): parts[6] is three digits or "-"
Atoi(txt) == IF isDigits(txt) THEN decimal(txt, 0) ELSE 0

\* l.size, _ = strconv.ParseInt(parts[7], 10, 64): on a syntax error the
\* value is 0, on a range error it is the largest int64
ParseInt(txt) ==
  IF ~isDigits(txt) THEN 0
  ELSE IF outOfRange(txt) THEN MaxInt64
  ELSE decimal(stripZeros(txt), 0)

\* l.timestamp, _ = time.Parse(layout, parts[4])
parseTime(date) == IF date.layout THEN date.at ELSE ZeroTime

\* l := &log{...} and the three conversions
parseLine(ln) ==
  [remoteAddr |-> ln.remoteAddr, timestamp |-> parseTime(ln.date),
   request |-> ln.request, status |-> Atoi(ln.status), size |-> ParseInt(ln.size)]

\* the rest of a host name cut after its first character
restOfHost ==
  ("10.0.0.1" :> "0.0.0.1" @@ "10.0.0.2" :> "0.0.0.2" @@
   "10.0.0.3" :> "0.0.0.3" @@ "10.0.0.4" :> "0.0.0.4" @@ "" :> "")

\* the line without the first character of its first field
restOfLine(ln) == [ln EXCEPT !.remoteAddr = restOfHost[@]]

\* fmt.Printf("Skipping log not in Common Log Format: %s\n", line)
skipLine == [kind |-> "skip"]

\* the file is complete up to its end: the last write ended a line
atLineEnd == IF file = <<>> THEN TRUE ELSE file[Len(file)].done

\* the watcher queues one event per write, unless the kernel merges it with
\* an event that is still queued
notified(n) == {n + 1} \cup (IF n > 0 THEN {n} ELSE {})

\* where a write may end inside a line: in its first field, or after it
Cuts == {"host", "later"}

\* the writer of the log appends a whole line with one write
AppendLine(ln) ==
  /\ atLineEnd
  /\ file' = Append(file, [line |-> ln, done |-> TRUE, cut |-> "none"])
  /\ events' \in notified(events)
  /\ UNCHANGED <<rpos, rpart, rl, sent>>
  /\ UNCHANGED <<opts, feed, scen, now, rvars, cvars, avars, alvars, stdout, svars>>

\* the writer appends the beginning of a line (its buffer was flushed in the
\* middle of the line)
AppendPart(ln, cut) ==
  /\ atLineEnd
  /\ file' = Append(file, [line |-> ln, done |-> FALSE, cut |-> cut])
  /\ events' \in notified(events)
  /\ UNCHANGED <<rpos, rpart, rl, sent>>
  /\ UNCHANGED <<opts, feed, scen, now, rvars, cvars, avars, alvars, stdout, svars>>

\* the writer appends the rest of the line and its newline
AppendRest ==
  /\ ~atLineEnd
  /\ file' = [file EXCEPT ![Len(file)].done = TRUE]
  /\ events' \in notified(events)
  /\ UNCHANGED <<rpos, rpart, rl, sent>>
  /\ UNCHANGED <<opts, feed, scen, now, rvars, cvars, avars, alvars, stdout, svars>>

\* one turn of READLOOP: reader.ReadString('\n') and what follows, up to the
\* send on c.logs or the call of waitForLogs.  At the end of the file
\* ReadString returns io.EOF together with the bytes of an unfinished line;
\* the loop drops them.  What is read later is the rest of that line: it
\* matches clfRegexp when the line does and the dropped bytes were the
\* beginning of its first field (^(\S+) then matches the rest of the field).
ReadLine ==
  /\ rpc = "read"
  /\ IF rpos < Len(file) /\ file[rpos + 1].done
     THEN /\ rpos' = rpos + 1
          /\ rpart' = FALSE
          /\ IF file[rpos + 1].line.clf /\ (rpart => file[rpos + 1].cut = "host")
             THEN /\ rl' = <<parseLine(IF rpart THEN restOfLine(file[rpos + 1].line)
                                                ELSE file[rpos + 1].line)>>
                  /\ rpc' = "send"
                  /\ UNCHANGED stdout
             ELSE /\ stdout' = Append(stdout, skipLine)
                  /\ UNCHANGED <<rl, rpc>>
     ELSE /\ rpart' = (rpos < Len(file))
          /\ rpc' = "wait"
          /\ UNCHANGED <<rpos, rl, stdout>>
  /\ UNCHANGED <<file, events, sent>>
  /\ UNCHANGED <<rclose, mclose, stpc, xpc, mst>>
  /\ UNCHANGED <<opts, feed, scen, now, cvars, avars, alvars, svars>>

\* waitForLogs: case <-c.watcher.Events: return true
WaitEvent ==
  /\ rpc = "wait"
  /\ events > 0
  /\ events' = events - 1
  /\ rpc' = "read"
  /\ UNCHANGED <<file, rpos, rpart, rl, sent>>
  /\ UNCHANGED <<rclose, mclose, stpc, xpc, mst>>
  /\ UNCHANGED <<opts, feed, scen, now, cvars, avars, alvars, stdout, svars>>

\* c.logs <- l, received by for l := range logs (c.logs is unbuffered)
ReadSend ==
  /\ rpc = "send"
  /\ cpc = "range"
  /\ cur' = rl
  /\ cpc' = "lock"
  /\ rl' = <<>>
  /\ rpc' = "read"
  /\ sent' = Append(sent, [at |-> rpos, l |-> rl[1]])
  /\ UNCHANGED <<file, rpos, rpart, events>>
  /\ UNCHANGED <<rclose, mclose, stpc, xpc, mst>>
  /\ UNCHANGED <<mu, count, topSections, ipHll, sizeHist, statusFreq, hits>>
  /\ UNCHANGED <<opts, feed, scen, now, avars, alvars, stdout, svars>>

(***************************************************************************)
(* The state after New and Start: the goroutines run, the tickers are      *)
(* created at time 0, nothing was read yet.                                *)
(***************************************************************************)
\* Monitor.Start after collector.Start has opened the reader
started == [pc |-> "running", file |-> "ok", err |-> FALSE]

Doc(a, b) == <<"/", a, "/", b>>
Request(doc) == [ok |-> TRUE, document |-> doc]
Log(addr, ts, req, status, size) ==
  [remoteAddr |-> addr, timestamp |-> ts, request |-> req, status |-> status, size |-> size]

InitState(o, f, sc) ==
  /\ opts = o
  /\ feed = f
  /\ scen = sc
  /\ now = 0
  /\ rpc = "read" /\ rclose = FALSE /\ mclose = FALSE /\ stpc = "idle"
  /\ mst = started /\ xpc = "idle"
  /\ mu = [w |-> FALSE, r |-> 0]
  /\ cpc = "range" /\ cur = <<>>
  /\ count = 0
  /\ topSections = Empty
  /\ ipHll = {}
  /\ sizeHist = newSizeHist
  /\ statusFreq = newStatusFreq
  /\ hits = <<>>
  /\ buckets = newBuckets(o.AlertWindow, quantum)
  /\ idx = 0
  /\ qpc = "recv" /\ qhit = <<>>
  /\ tickC = FALSE /\ tpc = "select"
  /\ alertC = FALSE /\ apc = "select" /\ alerted = FALSE
  /\ stdout = <<>>
  /\ reportC = FALSE /\ spc = "select" /\ s = newSummary(0)
  /\ file = <<>> /\ rpos = 0 /\ rpart = FALSE /\ rl = <<>> /\ events = 0
  /\ sent = <<>> /\ snaps = <<>>
  /\ quanta = <<0>>

NoScenario == [low |-> 0, high |-> 0, lead |-> 0]

\* the options of the runs: the window is at least one quantum
Windows    == {quantum, 2 * quantum}
Thresholds == {0, 1}

\* records that differ in their timestamp only: the start of the run, a
\* later second
AvgFeed ==
  {Log("::1", ts, Request(Doc("p", "1")), 200, 17) : ts \in {0, 3}}

Init ==
  \E w \in Windows, t \in Thresholds :
    InitState([AlertWindow |-> w, AlertThreshold |-> t, ReportingInterval |-> MaxTime],
              AvgFeed, NoScenario)

\* the clock is stopped at MaxTime and the file holds at most MaxRecords lines
Next ==
  \/ now < MaxTime /\ Advance
  \/ \E l \in feed : count < MaxRecords /\ Process(l)
  \/ QuantizeRecv \/ QuantizeInc
  \/ TickRecv \/ TickUpdate
  \/ AlertRecv \/ AlertEval

Spec == Init /\ [][Next]_vars


(***************************************************************************)
(* Properties of the alert loop and of the averager, checked under Spec.   *)
(***************************************************************************)
RECURSIVE SumSeq(_)
SumSeq(q) == IF q = <<>> THEN 0 ELSE Head(q) + SumSeq(Tail(q))

RECURSIVE SumOver(_, _)
SumOver(f, S) ==
  IF S = {} THEN 0
  ELSE LET x == CHOOSE y \in S : TRUE IN f[x] + SumOver(f, S \ {x})

IsAlertLine(line) == line.kind \in {"alert", "recovered"}
alertLines == SelectSeq(stdout, IsAlertLine)

\* the value v exceeds / does not exceed the threshold t (NaN does neither)
Exceeds(v, t)    == v.den # 0 /\ v.num > t * v.den
NotExceeds(v, t) == v.den # 0 /\ v.num <= t * v.den

\* C1: an alert evaluation in state Normal with average() > threshold prints
\* one "alert" line carrying that average and becomes Alerting; in state
\* Alerting with average() <= threshold it prints one "recovered" line
\* carrying that average and becomes Normal; every other evaluation, and
\* every step that is not an evaluation, leaves the state and the output
\* alone.  Hence every alert line carries a value above the threshold and
\* every recovered line a value at or below it.
C1_AlertTransitions ==
  [][ /\ (apc = "eval" /\ apc' = "select") =>
           LET v == average
               t == opts.AlertThreshold
           IN  \/ /\ ~alerted /\ Exceeds(v, t)
                  /\ alerted'
                  /\ stdout' = Append(stdout, [kind |-> "alert", hits |-> v])
               \/ /\ alerted /\ NotExceeds(v, t)
                  /\ ~alerted'
                  /\ stdout' = Append(stdout, [kind |-> "recovered", hits |-> v])
               \/ /\ ~(~alerted /\ Exceeds(v, t))
                  /\ ~(alerted /\ NotExceeds(v, t))
                  /\ UNCHANGED <<alerted, stdout>>
      /\ ~(apc = "eval" /\ apc' = "select") => UNCHANGED <<alerted, stdout>>
      /\ \A i \in 1..Len(stdout') :
           /\ stdout'[i].kind = "alert" => Exceeds(stdout'[i].hits, opts.AlertThreshold)
           /\ stdout'[i].kind = "recovered" =>
                NotExceeds(stdout'[i].hits, opts.AlertThreshold)
    ]_vars

\* an alert was printed and a recovery after it
C1_Witness ==
  /\ Len(stdout) >= 2
  /\ stdout[1].kind = "alert"
  /\ stdout[2].kind = "recovered"
  /\ apc = "select"

\* C2: the alert lines alternate alert, recovered, alert, ... and begin with
\* an alert: no two consecutive lines have the same kind.
C2_NoDoubleFire ==
  \A i \in 1..Len(alertLines) :
    alertLines[i].kind = (IF i % 2 = 1 THEN "alert" ELSE "recovered")

\* three lines were printed: the loop fired, recovered and fired again
C2_Witness == Len(alertLines) >= 3 /\ alerted

\* C4: average() is the sum of the populated buckets other than the current
\* one, over their number times the quantum in seconds; neither the current
\* bucket nor a nil bucket counts in the sum or in the number.
populatedPast == {i \in DOMAIN buckets : i # idx /\ buckets[i] # Nil}
C4_AverageValue ==
  /\ average.num = SumOver([i \in populatedPast |-> Deref(buckets[i])], populatedPast)
  /\ average.den = Cardinality(populatedPast) * quantum

\* the current bucket holds hits, a past bucket holds hits, a bucket is nil
C4_Witness ==
  /\ buckets[idx] # Nil /\ Deref(buckets[idx]) > 0
  /\ \E i \in populatedPast : Deref(buckets[i]) > 0
  /\ \E i \in DOMAIN buckets : buckets[i] = Nil

\* C5: when the quantizer takes a hit off the channel, the ring and the
\* cursor do not change, and the hit is dropped if it is older than now minus
\* the window and otherwise kept for the increment; the increment adds one
\* to the bucket at the cursor (a nil bucket becoming 1) and changes no other
\* bucket and not the cursor.
C5_QuantizeFrame ==
  [][ /\ (qpc = "recv" /\ hits' # hits /\ Len(hits') < Len(hits)) =>
           /\ UNCHANGED <<buckets, idx>>
           /\ IF Head(hits) < now - opts.AlertWindow
                THEN qpc' = "recv" /\ qhit' = <<>>
                ELSE qpc' = "inc" /\ qhit' = <<Head(hits)>>
      /\ (qpc = "inc" /\ qpc' = "recv") =>
           /\ idx' = idx
           /\ DOMAIN buckets' = DOMAIN buckets
           /\ buckets'[idx] = <<(IF buckets[idx] = <<>> THEN 0 ELSE buckets[idx][1]) + 1>>
           /\ \A i \in DOMAIN buckets : i # idx => buckets'[i] = buckets[i]
    ]_vars

\* two hits were consumed: one was dropped as too old, one was counted
C5_Witness ==
  /\ count = 2 /\ hits = <<>> /\ qpc = "recv"
  /\ SumSeq(quanta) = 1

\* C6: when each of the first w = window/quantum quanta received hits and w
\* ticks have passed, with no hit counted since the last of them, average()
\* is the number of hits counted over w times the quantum in seconds: the
\* summed buckets total k and exactly w buckets are counted.
windowQuanta == opts.AlertWindow \div quantum
C6_FullWindowAverage ==
  ( /\ Len(quanta) = windowQuanta + 1
    /\ \A k \in 1..windowQuanta : quanta[k] > 0
    /\ quanta[windowQuanta + 1] = 0 )
  => average = Float(SumSeq(quanta), windowQuanta * quantum)

\* a window of two quanta was filled with three hits
C6_Witness ==
  /\ windowQuanta = 2
  /\ Len(quanta) = 3
  /\ quanta[1] > 0 /\ quanta[2] > 0 /\ quanta[3] = 0
  /\ SumSeq(quanta) = 3

\* C7: latest() is the number of hits counted in the quantum that was
\* completed last, and 0 when no quantum was completed yet.
C7_LatestValue ==
  latest = (IF Len(quanta) = 1 THEN 0 ELSE quanta[Len(quanta) - 1])

\* the cursor wrapped around to 0 and the bucket before it (the last of the
\* ring) holds the hits of the quantum just completed, the current one too
C7_Witness ==
  /\ Len(quanta) > len(buckets)
  /\ idx = 0
  /\ latest > 0
  /\ buckets[idx] # Nil /\ Deref(buckets[idx]) > 0 /\ Deref(buckets[idx]) # latest

\* C8: the ring has window/quantum + 1 buckets at all times, the cursor is
\* an index of it, and exactly one bucket, the one at the cursor, is left
\* out of the average among the populated ones.
populated == {i \in DOMAIN buckets : buckets[i] # Nil}
C8_RingShape ==
  /\ DOMAIN buckets = 0..(opts.AlertWindow \div quantum)
  /\ Cardinality(DOMAIN buckets) = (opts.AlertWindow \div quantum) + 1
  /\ idx \in DOMAIN buckets
  /\ Cardinality({i \in DOMAIN buckets : i = idx}) = 1
  /\ average.den = Cardinality(populated \ {idx}) * quantum

\* the ring was cycled through and every bucket is populated
C8_Witness ==
  /\ Len(quanta) > len(buckets) + 1
  /\ populated = DOMAIN buckets
  /\ idx # 0


(***************************************************************************)
(* SpecSnap: the collector processing records line by line while the       *)
(* report loop takes summaries and the averager runs.                      *)
(***************************************************************************)
\* the clock of SpecSnap stops at SnapMaxTime
SnapMaxTime == 1

\* the number of records SpecSnap reads
SnapRecords == 2

\* two records that differ in every field
SnapFeed ==
  { Log("10.0.0.1", 0, Request(Doc("pages", "1")), 200, 17),
    Log("10.0.0.2", 1, Request(Doc("users", "5")), 404, 99) }

SnapInit ==
  InitState([AlertWindow |-> quantum, AlertThreshold |-> 1, ReportingInterval |-> 1],
            SnapFeed, NoScenario)

SnapNext ==
  \/ now < SnapMaxTime /\ Advance
  \/ \E l \in feed : count < SnapRecords /\ Deliver(l)
  \/ ProcessLock \/ ProcessSend \/ ProcessRequest \/ ProcessIP
  \/ ProcessSize \/ ProcessStatus
  \/ QuantizeRecv \/ QuantizeInc
  \/ TickRecv \/ TickUpdate
  \/ ReportRecv \/ SummaryRLock
  \/ SummaryTop \/ SummaryIPs \/ SummarySize \/ SummaryStatus
  \/ SummaryLatest \/ SummaryAvg \/ SummaryReturn

SpecSnap == SnapInit /\ [][SnapNext]_vars

countOf(f, k) == IF k \in DOMAIN f THEN f[k] ELSE 0

\* the counter of the class of status st in a status frequency table
classCount(f, st) ==
  CASE st \div 100 = 1 -> f.Informational
    [] st \div 100 = 2 -> f.Successful
    [] st \div 100 = 3 -> f.Redirection
    [] st \div 100 = 4 -> f.ClientError
    [] st \div 100 = 5 -> f.ServerError
    [] OTHER -> 0

\* how often the summary sm has seen record l, by its sections table
seenIn(sm, l) == countOf(sm.TopSections, sectionFromDocument(l.request.document))

\* C9: when summary has copied the collector's aggregates, all of them
\* reflect the same records: each record of the file (the records differ in
\* every field) is counted as often in the top sections as in the size
\* distribution and in its status class, and the distinct addresses are
\* those of the records counted; no record is counted in some of them only.
C9_SnapshotConsistent ==
  spc \in {"latest", "avg", "window"} =>
    /\ \A l \in feed :
         /\ countOf(s.SizeHist, l.size) = seenIn(s, l)
         /\ classCount(s.StatusFreq, l.status) = seenIn(s, l)
    /\ s.DistinctIPs = Cardinality({l \in feed : seenIn(s, l) > 0})

\* a summary holds a record while process() waits for the lock with the
\* next one
C9_Witness ==
  /\ spc = "window"
  /\ \E l \in feed : seenIn(s, l) > 0
  /\ cpc = "lock"
  /\ mu.r = 1

\* C10: the latest and the average hit rate of one summary come from the
\* same ring: between summary's call of latest() and its call of average()
\* no tick and no increment of the quantizer takes effect.
C10_HitRatesSameRing ==
  [][spc = "avg" => UNCHANGED <<buckets, idx>>]_vars


(***************************************************************************)
(* SpecScenario: a generated feed.  Records are written at scen.low per    *)
(* second for scen.lead seconds, at scen.high per second for the length of *)
(* the alert window, and at scen.low again afterwards.  Every record is    *)
(* processed, and every timer that has fired is served, before the clock   *)
(* moves on; timers that fire at the same instant are served in any order. *)
(***************************************************************************)
\* the seconds of low rate that follow the high rate
ScenarioTail == 3

rateAt(t) ==
  IF t >= scen.lead /\ t < scen.lead + opts.AlertWindow THEN scen.high ELSE scen.low

\* the number of records written up to the end of second t
written(t) == SumOver([u \in 0..t |-> rateAt(u)], 0..t)

scenarioEnd == scen.lead + 2 * opts.AlertWindow + ScenarioTail

\* a timer or a hit is waiting to be served
Urgent ==
  \/ tickC \/ tpc = "update"
  \/ alertC \/ apc = "eval"
  \/ hits # <<>> \/ qpc = "inc"

ScenarioWrite ==
  /\ ~Urgent
  /\ count < written(now)
  /\ Process(Log("::1", now, Request(Doc("p", "1")), 200, 17))

ScenarioAdvance ==
  /\ ~Urgent
  /\ count = written(now)
  /\ now < scenarioEnd
  /\ Advance

Leads == {1, 2}

ScenarioInit ==
  \E w \in Windows, t \in {1, 2}, lo \in 0..1, hi \in 2..3, ld \in Leads :
    /\ lo < t /\ t < hi
    /\ InitState([AlertWindow |-> w, AlertThreshold |-> t, ReportingInterval |-> 1000],
                 {}, [low |-> lo, high |-> hi, lead |-> ld])

ScenarioNext ==
  \/ ScenarioWrite \/ ScenarioAdvance
  \/ QuantizeRecv \/ QuantizeInc
  \/ TickRecv \/ TickUpdate
  \/ AlertRecv \/ AlertEval

SpecScenario == ScenarioInit /\ [][ScenarioNext]_vars

scenarioOver == now = scenarioEnd /\ ~Urgent /\ count = written(now)

\* no alert line during the initial seconds of low rate
C3_NoEarlyLine == now < scen.lead => alertLines = <<>>

\* at most one line of each kind, the triggered one first
C3_AtMostOnce ==
  /\ Len(alertLines) <= 2
  /\ \A i \in 1..Len(alertLines) :
       alertLines[i].kind = (IF i = 1 THEN "alert" ELSE "recovered")

\* when the feed is over both lines are there
C3_BothLines == scenarioOver => Len(alertLines) = 2

\* C3: for a feed below the threshold, then above it for one alert window,
\* then below it again, the output holds exactly one triggered line and one
\* recovered line, none of them during the initial low-rate seconds.
C3_Scenario == C3_NoEarlyLine /\ C3_AtMostOnce /\ C3_BothLines


(***************************************************************************)
(* SpecTwice: the report loop takes several summaries while at most        *)
(* TwiceRecords records are processed and the averager runs.               *)
(***************************************************************************)
TwiceMaxTime == 2
TwiceRecords == 1

TwiceNext ==
  \/ now < TwiceMaxTime /\ Advance
  \/ \E l \in feed : count < TwiceRecords /\ Deliver(l)
  \/ ProcessLock \/ ProcessSend \/ ProcessRequest \/ ProcessIP
  \/ ProcessSize \/ ProcessStatus
  \/ QuantizeRecv \/ QuantizeInc
  \/ TickRecv \/ TickUpdate
  \/ ReportRecv \/ SummaryRLock
  \/ SummaryTop \/ SummaryIPs \/ SummarySize \/ SummaryStatus
  \/ SummaryLatest \/ SummaryAvg \/ SummaryReturn

SpecTwice == SnapInit /\ [][TwiceNext]_vars

IsSummaryLine(line) == line.kind = "summary"
\* the summaries printed so far; summaries[i] was taken at count snaps[i]
summaries == SelectSeq(stdout, IsSummaryLine)

\* pairs of summaries with no process() call between them
quietPairs ==
  {p \in (1..Len(summaries)) \X (1..Len(summaries)) :
     p[1] < p[2] /\ snaps[p[1]] = snaps[p[2]]}

sameAggregates(a, b) ==
  /\ a.TopSections = b.TopSections
  /\ a.DistinctIPs = b.DistinctIPs
  /\ a.SizeHist = b.SizeHist
  /\ a.StatusFreq = b.StatusFreq
  /\ a.Window = b.Window

sameRates(a, b) ==
  /\ a.HitsPerSecond = b.HitsPerSecond
  /\ a.AvgHits = b.AvgHits

\* C11 (as claimed): two summaries with no process() call between them are
\* identical in every aggregate field, the latest and the average hit rate
\* included.
C11_Idempotent ==
  \A p \in quietPairs :
    /\ sameAggregates(summaries[p[1]].s, summaries[p[2]].s)
    /\ sameRates(summaries[p[1]].s, summaries[p[2]].s)

\* C11 (amended): two summaries with no process() call between them are
\* identical in the top sections, the distinct addresses, the size
\* distribution, the status counts and the window.
C11_IdempotentAggregates ==
  \A p \in quietPairs : sameAggregates(summaries[p[1]].s, summaries[p[2]].s)

\* two summaries of the same processed record that differ in a hit rate
C11_Witness ==
  \E p \in quietPairs :
    /\ snaps[p[1]] > 0
    /\ summaries[p[1]].s.TopSections # Empty
    /\ ~sameRates(summaries[p[1]].s, summaries[p[2]].s)


(***************************************************************************)
(* SpecRead: the log is written line by line, or in pieces that end in the *)
(* middle of a line, while read() follows it and the collector processes   *)
(* what read() sends.  The clock stands still and the quantizer is not     *)
(* scheduled: the hits stay in their channel, which has room for them      *)
(* (Len(file) <= HitsCap).                                                 *)
(***************************************************************************)
\* the file grows to MaxLines lines
MaxLines == 2

Text(str) == str
Date(t) == [layout |-> TRUE, at |-> t]
BadDate == [layout |-> FALSE, at |-> 0]
Line(addr, date, doc, status, size) ==
  [clf |-> TRUE, remoteAddr |-> addr, date |-> date, request |-> Request(doc),
   status |-> status, size |-> size]

\* a line clfRegexp does not match
Garbage ==
  [clf |-> FALSE, remoteAddr |-> "", date |-> BadDate,
   request |-> [ok |-> FALSE, document |-> <<>>], status |-> <<"-">>, size |-> <<"-">>]

Pages1 == Line("10.0.0.1", Date(0), Doc("pages", "1"), <<"2", "0", "0">>, <<"1", "7">>)
Pages2 == Line("10.0.0.1", Date(0), Doc("pages", "2"), <<"4", "0", "4">>, <<"0">>)
Users5 == Line("10.0.0.2", Date(0), Doc("users", "5"), <<"5", "0", "3">>, <<"9", "9">>)
\* the date, the status and the size are the "-" placeholder or do not parse
Dashes == Line("10.0.0.3", BadDate, Doc("dash", "1"), <<"-">>, <<"-">>)
\* a status below 100 and a size of twenty digits
Huge ==
  Line("10.0.0.4", Date(0), Doc("huge", "1"), <<"0", "9", "9">>,
       <<"9", "9", "9", "9", "9", "9", "9", "9", "9", "9",
         "9", "9", "9", "9", "9", "9", "9", "9", "9", "9">>)

Lines == {Pages1, Dashes, Huge, Garbage}

ReadInit ==
  InitState([AlertWindow |-> quantum, AlertThreshold |-> 1, ReportingInterval |-> 1],
            {}, NoScenario)

ReadNext ==
  \/ \E ln \in Lines : Len(file) < MaxLines /\ Len(file) < HitsCap /\ AppendLine(ln)
  \/ \E ln \in Lines, cut \in Cuts :
       Len(file) < MaxLines /\ Len(file) < HitsCap /\ AppendPart(ln, cut)
  \/ AppendRest
  \/ ReadLine \/ WaitEvent \/ ReadSend
  \/ ProcessLock \/ ProcessSend \/ ProcessRequest \/ ProcessIP
  \/ ProcessSize \/ ProcessStatus

SpecRead == ReadInit /\ [][ReadNext]_vars

\* the records read() has sent, in the order of the sends
sentRecords == [k \in 1..Len(sent) |-> sent[k].l]

\* the sum of the five counters of a status frequency table
statusSum(f) ==
  f.Informational + f.Successful + f.Redirection + f.ClientError + f.ServerError

inClasses(status) == 100 <= status /\ status <= 599

\* C12 (as claimed): whenever no record is being processed, the five
\* status-class counters add up to the collector's record count.
C12_StatusSumIsCount ==
  cpc = "range" => statusSum(statusFreq) = count

\* C12 (amended): whenever no record is being processed, the collector's
\* count is the number of records sent to it, and the five status-class
\* counters add up to the number of those records whose status lies in
\* 100..599.
C12_StatusSumInClasses ==
  cpc = "range" =>
    /\ count = Len(sent)
    /\ statusSum(statusFreq) =
         Cardinality({k \in 1..Len(sent) : inClasses(sentRecords[k].status)})

\* two records were processed, one of them with a status outside 100..599
C12_Witness ==
  /\ cpc = "range"
  /\ count = 2
  /\ statusSum(statusFreq) = 1

(***************************************************************************)
(* SpecFields: the collector processes copies of one record, whose         *)
(* document or status is any of a set of values.                           *)
(***************************************************************************)
\* the documents have at most MaxDocLen characters
MaxDocLen == 4

\* a document is a sequence of characters; a name without '/' may stand for
\* its characters
DocChars == {"/", "a", "b"}
Docs == UNION {[1..n -> DocChars] : n \in 1..MaxDocLen}

\* "http://my.site.com/pages/create"
UrlDoc == <<"http:", "/", "/", "my.site.com", "/", "pages", "/", "create">>

\* the limits of the status classes, and codes around them
Statuses == {0, 99, 100, 199, 200, 299, 300, 399, 400, 499, 500, 599, 600, 999}

\* a request line requestRegexp does not match, such as "-"
BadRequest == [ok |-> FALSE, document |-> <<>>]

FieldFeed ==
  {Log("::1", 0, Request(d), 200, 17) : d \in Docs \cup {UrlDoc}}
  \cup {Log("::1", 0, Request(Doc("p", "1")), st, 17) : st \in Statuses}
  \cup {Log("::1", 0, BadRequest, 200, 17)}

FieldsInit ==
  \E l \in FieldFeed :
    InitState([AlertWindow |-> quantum, AlertThreshold |-> 1, ReportingInterval |-> 1],
              {l}, NoScenario)

FieldsNext ==
  \/ \E l \in feed : count < MaxRecords /\ Process(l)
  \/ QuantizeRecv \/ QuantizeInc

SpecFields == FieldsInit /\ [][FieldsNext]_vars

\* the record of the run
theRecord == CHOOSE l \in feed : TRUE

classField(status) ==
  CASE status \div 100 = 1 -> "Informational"
    [] status \div 100 = 2 -> "Successful"
    [] status \div 100 = 3 -> "Redirection"
    [] status \div 100 = 4 -> "ClientError"
    [] status \div 100 = 5 -> "ServerError"

\* C13: processing a record with status s adds one to the counter of the
\* class s / 100 and leaves the other four alone when 100 <= s <= 599, and
\* leaves all five alone otherwise; no other step changes the counters.
C13_StatusClass ==
  [][IF count' = count + 1
       THEN IF inClasses(theRecord.status)
              THEN statusFreq' =
                     [statusFreq EXCEPT ![classField(theRecord.status)] = @ + 1]
              ELSE statusFreq' = statusFreq
       ELSE statusFreq' = statusFreq]_vars

\* two records of the highest status of a class and two of the first status
\* above the classes have been processed
C13_Witness ==
  /\ count = 2
  /\ \/ theRecord.status = 200 /\ statusFreq.Successful = 2
     \/ theRecord.status = 600 /\ statusSum(statusFreq) = 0

numSlashes(d) == Cardinality({i \in 1..Len(d) : d[i] = "/"})

\* the prefixes of d that end right before a '/' and hold exactly one '/'
beforeSecondSlash(d) ==
  {SubSeq(d, 1, k - 1) : k \in {j \in 1..Len(d) :
      d[j] = "/" /\ numSlashes(SubSeq(d, 1, j - 1)) = 1}}

\* C15: the section of a document with no or one '/' is "/"; the section of
\* a document with two or more is its prefix up to, and without, the second
\* '/'.  (The sections table holds the section of the record, once per
\* record processed; the record is one whose request line has a document.)
C15_SectionKey ==
  (count > 0 /\ theRecord.request.ok) =>
    LET d == theRecord.request.document
    IN  /\ DOMAIN topSections \in
             (IF numSlashes(d) <= 1 THEN {{<<"/">>}}
              ELSE {{p} : p \in beforeSecondSlash(d)})
        /\ \A k \in DOMAIN topSections : topSections[k] = count

\* a record of document "/a/b" was processed: its section is "/a"
C15_Witness ==
  /\ count = 1
  /\ theRecord.request.document = <<"/", "a", "/", "b">>
  /\ topSections = (<<"/", "a">> :> 1)

\* C16: the section of "http://my.site.com/pages/create" is
\* "http://my.site.com/pages".
C16_UrlSection ==
  (count > 0 /\ theRecord.request.document = UrlDoc) =>
    DOMAIN topSections = {<<"http:", "/", "/", "my.site.com", "/", "pages">>}

(***************************************************************************)
(* SpecRotate: the collector from a few records before a multiple of the   *)
(* rotation threshold to a few records after it.  The run starts in the    *)
(* state the collector is in after that many records of 17 bytes for       *)
(* "/small/1" were processed and counted at time 0.                        *)
(***************************************************************************)
\* the runs start RotateLead records before a multiple of RotateEvery
RotateLead == 2

Small == Log("::1", 0, Request(Doc("small", "1")), 200, 17)
Large == Log("::1", 0, Request(Doc("large", "1")), 200, 99)

\* a table with n occurrences of k
timesOf(k, n) == IF n = 0 THEN Empty ELSE (k :> n)

\* the size histograms after c records of Small
sizeHistAfter(c) ==
  [idx |-> c \div RotateEvery,
   h   |-> [i \in 0..(NumHist - 1) |->
              IF i < c \div RotateEvery THEN timesOf(Small.size, RotateEvery)
              ELSE IF i = c \div RotateEvery THEN timesOf(Small.size, c % RotateEvery)
              ELSE Empty]]

RotateStarts == {0} \cup {k * RotateEvery - RotateLead : k \in 1..(NumHist - 1)}

RotateInit ==
  \E c \in RotateStarts :
    /\ opts = [AlertWindow |-> quantum, AlertThreshold |-> 1, ReportingInterval |-> 1]
    /\ feed = {Small, Large}
    /\ scen = NoScenario
    /\ now = 0
    /\ rpc = "read" /\ rclose = FALSE /\ mclose = FALSE /\ stpc = "idle"
    /\ mst = started /\ xpc = "idle"
    /\ mu = [w |-> FALSE, r |-> 0]
    /\ cpc = "range" /\ cur = <<>>
    /\ count = c
    /\ topSections = timesOf(sectionFromDocument(Small.request.document), c)
    /\ ipHll = IF c = 0 THEN {} ELSE {Small.remoteAddr}
    /\ sizeHist = sizeHistAfter(c)
    /\ statusFreq = [newStatusFreq EXCEPT !.Successful = c]
    /\ hits = <<>>
    /\ buckets = IF c = 0 THEN newBuckets(quantum, quantum)
                 ELSE [newBuckets(quantum, quantum) EXCEPT ![0] = Ptr(c)]
    /\ idx = 0
    /\ qpc = "recv" /\ qhit = <<>>
    /\ tickC = FALSE /\ tpc = "select"
    /\ alertC = FALSE /\ apc = "select" /\ alerted = FALSE
    /\ stdout = <<>>
    /\ reportC = FALSE /\ spc = "select" /\ s = newSummary(0)
    /\ file = <<>> /\ rpos = 0 /\ rpart = FALSE /\ rl = <<>> /\ events = 0
    /\ sent = <<>> /\ snaps = <<>>
    /\ quanta = <<c>>

\* count is within RotateLead of a multiple of RotateEvery
nearRotation(n) ==
  n % RotateEvery < RotateLead \/ n % RotateEvery >= RotateEvery - RotateLead

RotateNext ==
  \/ \E l \in feed : nearRotation(count) /\ Process(l)
  \/ QuantizeRecv \/ QuantizeInc

SpecRotate == RotateInit /\ [][RotateNext]_vars

\* the number of values a table of counts holds
totalOf(f) == SumOver(f, DOMAIN f)

\* how often a table of counts holds k
timesIn(f, k) == IF k \in DOMAIN f THEN f[k] ELSE 0

\* C14: the size histogram is rotated exactly when the count reaches a
\* positive multiple of RotateEvery (the rotations so far are count /
\* RotateEvery), after the size of that record was recorded (the bucket in
\* use holds the sizes of the records since the last multiple, and none at
\* a multiple); and while fewer rotations than buckets took place, the
\* merged distribution holds the size of every record processed (the
\* records for "/small" are of 17 bytes and those for "/large" of 99).
C14_Rotation ==
  /\ sizeHist.idx = count \div RotateEvery
  /\ totalOf(sizeHist.h[sizeHist.idx % NumHist]) = count % RotateEvery
  /\ sizeHist.idx < NumHist =>
       /\ totalOf(merge(sizeHist)) = count
       /\ timesIn(merge(sizeHist), Small.size) = timesIn(topSections, <<"/", "small">>)
       /\ timesIn(merge(sizeHist), Large.size) = timesIn(topSections, <<"/", "large">>)

\* exactly RotateEvery records were processed, the last of them of 99 bytes:
\* one rotation, an empty bucket in use, and the 99 in the merged distribution
C14_Witness ==
  /\ count = RotateEvery
  /\ sizeHist.idx = 1
  /\ sizeHist.h[1] = Empty
  /\ timesIn(sizeHist.h[0], Large.size) >= 1
  /\ totalOf(merge(sizeHist)) = RotateEvery

(***************************************************************************)
(* SpecThree: the lines for /pages/1, /pages/2 and /users/5 are written to *)
(* the file once each, in any order and in one or two writes each; read()  *)
(* follows the file, the collector processes and the averager counts.      *)
(***************************************************************************)
ThreeLines == {Pages1, Pages2, Users5}

\* the lines the writer has not written yet
unwritten == {ln \in ThreeLines : \A i \in 1..Len(file) : file[i].line # ln}

ThreeNext ==
  \/ \E ln \in unwritten : AppendLine(ln)
  \/ \E ln \in unwritten, cut \in Cuts : AppendPart(ln, cut)
  \/ AppendRest
  \/ ReadLine \/ WaitEvent \/ ReadSend
  \/ ProcessLock \/ ProcessSend \/ ProcessRequest \/ ProcessIP
  \/ ProcessSize \/ ProcessStatus
  \/ QuantizeRecv \/ QuantizeInc

SpecThree == ReadInit /\ [][ThreeNext]_vars

\* C17: once the three lines for /pages/1, /pages/2 and /users/5 were
\* processed, and nothing else, the sections table holds "/pages" twice and
\* "/users" once.
C17_ThreeLines ==
  (count = 3 /\ cpc = "range") =>
    topSections = (<<"/", "pages">> :> 2 @@ <<"/", "users">> :> 1)

\* the three lines were written, read, sent and processed
C17_Witness ==
  /\ Len(file) = 3 /\ rpos = 3 /\ Len(sent) = 3
  /\ count = 3 /\ cpc = "range"
  /\ timesIn(topSections, <<"/", "pages">>) = 2

(***************************************************************************)
(* The reader's hand-over, under SpecRead.                                 *)
(***************************************************************************)
\* the positions of the lines read() has handled: those it has read, but for
\* the one whose record it is about to send
handled == IF rpc = "send" THEN 1..(rpos - 1) ELSE 1..rpos

\* the positions of the lines whose record read() has sent
sentAt == {sent[k].at : k \in 1..Len(sent)}

\* C18: a line clfRegexp does not match yields no record, and every line it
\* matches that comes after such a line is delivered.  (That no aggregate
\* changes follows from no record being sent; the reader never stops in
\* these runs.)
C18_SkipAndContinue ==
  \A i \in handled :
    ~file[i].line.clf =>
      /\ i \notin sentAt
      /\ \A j \in handled : (j > i /\ file[j].line.clf) => j \in sentAt

\* the text of a sub-field does not parse
badStatus(txt) == ~(isDigits(txt) /\ Len(txt) = 3)
badSize(txt) == ~isDigits(txt) \/ outOfRange(txt)

\* C19: a record sent for a line whose date, status or size does not parse
\* has the zero value in that field: the zero time, status 0, size 0.
C19_ZeroDefaults ==
  \A k \in 1..Len(sent) :
    LET ln == file[sent[k].at].line
    IN  /\ ~ln.date.layout => sent[k].l.timestamp = ZeroTime
        /\ badStatus(ln.status) => sent[k].l.status = 0
        /\ badSize(ln.size) => sent[k].l.size = 0

\* C20: the records sent are those of the well-formed lines handled so far,
\* one for each, in the order of the file: the positions of the sent
\* records increase, each record is the one its line parses to, and no
\* well-formed line that was handled is missing.
C20_OrderedImage ==
  /\ \A j, k \in 1..Len(sent) : j < k => sent[j].at < sent[k].at
  /\ \A k \in 1..Len(sent) : sent[k].l = parseLine(file[sent[k].at].line)
  /\ sentAt = {i \in handled : file[i].line.clf}

(***************************************************************************)
(* The averager's tick and the populated buckets, under Spec.              *)
(***************************************************************************)
\* C25: a tick moves the cursor to the next position modulo the length of
\* the ring and sets the bucket there to a populated zero, whatever it held,
\* and changes no other bucket; hence once the cursor has gone round the
\* ring, the bucket k positions behind the cursor holds the count of the
\* k-th last completed quantum, for k = 1 .. window/quantum.
C25_TickAdvances ==
  /\ [][(tpc = "update" /\ tpc' = "select") =>
          /\ DOMAIN buckets' = DOMAIN buckets
          /\ idx' = (idx + 1) % Cardinality(DOMAIN buckets)
          /\ buckets'[idx'] = <<0>>
          /\ \A i \in DOMAIN buckets \ {idx'} : buckets'[i] = buckets[i]]_vars
  /\ [](Len(quanta) > len(buckets) =>
          \A k \in 1..windowQuanta :
            buckets[(idx + len(buckets) - k) % len(buckets)]
              = <<quanta[Len(quanta) - k]>>)

\* the cursor has gone round the ring: the bucket it is on now held hits a
\* cycle ago and restarted from zero, and a bucket behind it holds hits
C25_Witness ==
  /\ Len(quanta) > len(buckets)
  /\ tpc = "select"
  /\ quanta[Len(quanta) - len(buckets)] > 0
  /\ buckets[idx] = <<0>>
  /\ latest > 0

\* C29: a populated bucket stays populated, so the number of populated
\* buckets never decreases; and from the second tick on a bucket other than
\* the current one is populated, so that average() is defined (its divisor
\* is not 0), for the rings of 2 and of 3 buckets.
C29_PopulatedStays ==
  /\ [][/\ \A i \in DOMAIN buckets : buckets[i] # Nil => buckets'[i] # Nil
        /\ Cardinality({i \in DOMAIN buckets' : buckets'[i] # Nil})
             >= Cardinality(populated)]_vars
  /\ [](Len(quanta) >= 3 => (populatedPast # {} /\ average.den > 0 /\ ~IsNaN(average)))

\* two ticks have passed and no hit was counted: the buckets 0 and 1 of a
\* ring of 3 are populated zeros, the last one is still nil
C29_Witness ==
  /\ len(buckets) = 3
  /\ Len(quanta) = 3 /\ SumSeq(quanta) = 0
  /\ populated = {1, 2}
  /\ average = Float(0, quantum)

(***************************************************************************)
(* SpecSign: the averager and the alert loop with a threshold of either    *)
(* sign, for a window of one quantum.                                      *)
(***************************************************************************)
\* the clock is stopped at SignMaxTime, the file holds at most SignRecords lines
SignMaxTime == 4
SignRecords == 2

SignThresholds == {-1, 0}

SignInit ==
  \E t \in SignThresholds :
    InitState([AlertWindow |-> quantum, AlertThreshold |-> t, ReportingInterval |-> SignMaxTime],
              {Log("::1", 0, Request(Doc("p", "1")), 200, 17)}, NoScenario)

SignNext ==
  \/ now < SignMaxTime /\ Advance
  \/ \E l \in feed : count < SignRecords /\ Process(l)
  \/ QuantizeRecv \/ QuantizeInc
  \/ TickRecv \/ TickUpdate
  \/ AlertRecv \/ AlertEval

SpecSign == SignInit /\ [][SignNext]_vars

\* a quantum in which hits were counted has completed
dataCompleted == \E k \in 1..(Len(quanta) - 1) : quanta[k] > 0

\* an evaluation of the alert loop that reads an undefined average changes
\* neither the state of the loop nor the output
undefinedIsIgnored ==
  [][(apc = "eval" /\ apc' = "select" /\ populatedPast = {}) =>
       (IsNaN(average) /\ UNCHANGED <<alerted, stdout>>)]_vars

\* C28 (as claimed): average() is 0/0 exactly when no bucket but the current
\* one is populated; an evaluation that reads this value makes no
\* transition and prints nothing; and no alert is printed before a quantum
\* with hits has completed.
C28_NoAlertBeforeData ==
  /\ [](IsNaN(average) <=> populatedPast = {})
  /\ undefinedIsIgnored
  /\ []((alertLines # <<>>) => dataCompleted)

\* C28 (amended): as above, but no alert is printed before a quantum has
\* completed, and with a threshold that is not negative none before a
\* quantum with hits has completed.
C28_NoAlertBeforeQuantum ==
  /\ [](IsNaN(average) <=> populatedPast = {})
  /\ undefinedIsIgnored
  /\ []((alertLines # <<>>) =>
          (Len(quanta) > 1 /\ (opts.AlertThreshold >= 0 => dataCompleted)))

\* the alert loop has evaluated an undefined average (the timer fired, a
\* quantum later nothing but the current bucket is populated) and printed
\* nothing
C28_Witness ==
  /\ now >= alertPeriod
  /\ apc = "select" /\ ~alertC
  /\ populatedPast = {}
  /\ stdout = <<>> /\ ~alerted

(***************************************************************************)
(* The record whose request line is malformed, under SpecFields.           *)
(***************************************************************************)
\* C26: processing a record whose request line does not parse leaves the
\* sections table as it is, and adds one to the count, the remote address
\* to the distinct addresses, the size to the size distribution, one to the
\* class of the status, and the timestamp to the averager's channel.
C26_BadRequestFrame ==
  [][(count' = count + 1 /\ ~theRecord.request.ok) =>
       /\ topSections' = topSections
       /\ ipHll' = ipHll \cup {theRecord.remoteAddr}
       /\ totalOf(merge(sizeHist')) = totalOf(merge(sizeHist)) + 1
       /\ timesIn(merge(sizeHist'), theRecord.size)
            = timesIn(merge(sizeHist), theRecord.size) + 1
       /\ statusFreq' = [statusFreq EXCEPT !.Successful = @ + 1]
       /\ hits' = Append(hits, theRecord.timestamp)]_vars

\* two records with a malformed request line were processed
C26_Witness ==
  /\ ~theRecord.request.ok
  /\ count = 2
  /\ topSections = Empty
  /\ ipHll = {theRecord.remoteAddr}
  /\ statusFreq.Successful = 2
  /\ totalOf(merge(sizeHist)) = 2

(***************************************************************************)
(* SpecBlock: the reader hands over one record more than the averager's    *)
(* channel holds, while the quantizer and the report loop run.             *)
(***************************************************************************)
BlockInit ==
  InitState([AlertWindow |-> quantum, AlertThreshold |-> 1, ReportingInterval |-> 1],
            {Log("10.0.0.1", 0, Request(Doc("pages", "1")), 200, 17)}, NoScenario)

BlockNext ==
  \/ now < SnapMaxTime /\ Advance
  \/ \E l \in feed : count <= HitsCap /\ Deliver(l)
  \/ ProcessLock \/ ProcessSend \/ ProcessRequest \/ ProcessIP
  \/ ProcessSize \/ ProcessStatus
  \/ QuantizeRecv \/ QuantizeInc
  \/ ReportRecv \/ SummaryRLock
  \/ SummaryTop \/ SummaryIPs \/ SummarySize \/ SummaryStatus
  \/ SummaryLatest \/ SummaryAvg \/ SummaryReturn

SpecBlock == BlockInit /\ [][BlockNext]_vars

\* C27: while process() holds the collector's lock, the step it is at does
\* not wait for another activity: when it is at the send on the averager's
\* channel, the channel has room.
C27_LockNeverWaits ==
  (mu.w /\ cpc = "send") => Len(hits) < HitsCap

(***************************************************************************)
(* The line written in two writes, under SpecRead.                         *)
(***************************************************************************)
\* C30: a well-formed line that reached the file in two writes and that
\* read() has handled was sent exactly once, as the record the whole line
\* parses to.
C30_TornLineIntact ==
  \A i \in handled :
    (file[i].line.clf /\ file[i].cut # "none") =>
      Cardinality({k \in 1..Len(sent) :
                     sent[k].at = i /\ sent[k].l = parseLine(file[i].line)}) = 1

(***************************************************************************)
(* SpecWake: SpecRead with the goroutines of the reader and the collector  *)
(* scheduled fairly; the writer may stop at any time.                      *)
(***************************************************************************)
ReadFairness ==
  /\ WF_vars(ReadLine) /\ WF_vars(WaitEvent) /\ WF_vars(ReadSend)
  /\ WF_vars(ProcessLock) /\ WF_vars(ProcessSend) /\ WF_vars(ProcessRequest)
  /\ WF_vars(ProcessIP) /\ WF_vars(ProcessSize) /\ WF_vars(ProcessStatus)

SpecWake == ReadInit /\ [][ReadNext]_vars /\ ReadFairness

\* C21: a well-formed line that is in the file, whenever it was appended,
\* is eventually delivered to the collector.
C21_LineDelivered ==
  \A i \in 1..MaxLines :
    (Len(file) >= i /\ file[i].done /\ file[i].line.clf) ~> (i \in sentAt)

(***************************************************************************)
(* SpecClose: read() and Close() with a writer that never has to stop.     *)
(* The file is kept as the lines read() has not consumed yet, at most      *)
(* MaxLines of them, all well-formed and written whole; the collector      *)
(* takes every record read() sends and is not followed any further.        *)
(***************************************************************************)
\* the notifications that can be pending: the kernel merges a write's event
\* into an identical one that is still queued, and the watcher's goroutine
\* holds one more
MaxEvents == 2

TailLines == {Pages1, Dashes}

\* a write of one line; a closed watcher queues nothing
TailAppend(ln) ==
  /\ Len(file) < MaxLines
  /\ file' = Append(file, [line |-> ln, done |-> TRUE, cut |-> "none"])
  /\ IF rclose THEN events' = events
     ELSE events' \in {e \in notified(events) : e <= MaxEvents}
  /\ UNCHANGED <<rpos, rpart, rl, sent>>
  /\ UNCHANGED <<opts, feed, scen, now, rvars, cvars, avars, alvars, stdout, svars>>

\* one turn of READLOOP on lines written whole: the next line is parsed, or
\* ReadString returns io.EOF and waitForLogs is called
TailRead ==
  /\ rpc = "read"
  /\ IF file # <<>>
     THEN /\ file' = Tail(file)
          /\ rl' = <<parseLine(Head(file).line)>>
          /\ rpc' = "send"
     ELSE /\ rpc' = "wait"
          /\ UNCHANGED <<file, rl>>
  /\ UNCHANGED <<rpos, rpart, events, sent>>
  /\ UNCHANGED <<rclose, mclose, stpc, xpc, mst>>
  /\ UNCHANGED <<opts, feed, scen, now, cvars, avars, alvars, stdout, svars>>

\* c.logs <- l, received by the collector's range loop
TailSend ==
  /\ rpc = "send"
  /\ rl' = <<>>
  /\ rpc' = "read"
  /\ UNCHANGED <<file, rpos, rpart, events, sent>>
  /\ UNCHANGED <<rclose, mclose, stpc, xpc, mst>>
  /\ UNCHANGED <<opts, feed, scen, now, cvars, avars, alvars, stdout, svars>>

CloseNext ==
  \/ \E ln \in TailLines : TailAppend(ln)
  \/ TailRead \/ TailSend
  \/ WaitEvent \/ WaitClosed \/ ReaderExit
  \/ StopReader

\* the reader's goroutine runs; a select with several ready cases takes each
\* of them sooner or later
CloseFairness ==
  /\ WF_vars(TailRead) /\ WF_vars(TailSend)
  /\ WF_vars(WaitEvent \/ WaitClosed \/ ReaderExit)
  /\ SF_vars(ReaderExit)

SpecClose == ReadInit /\ [][CloseNext]_vars /\ CloseFairness

\* C22: once Close() was called the read loop eventually exits, and sends
\* nothing after it has.
C22_CloseStopsReader ==
  /\ rclose ~> (rpc = "done")
  /\ [][rpc = "done" => (rpc' = "done" /\ rl' = rl)]_vars

(***************************************************************************)
(* SpecLife: the monitor from Start to the end.  Start has launched the    *)
(* report and the alert loop and calls collector.Start; the file can be    *)
(* opened or not.  When it can, one line at most is written, and Stop is   *)
(* called at any time (as the signal handler does); when it cannot, Start  *)
(* calls Stop itself.  The goroutines are scheduled fairly.                *)
(***************************************************************************)
\* the clock is stopped at LifeMaxTime; when the file can be opened the run
\* is followed for the averager's first quantum only
LifeMaxTime == 2

LifeInit ==
  \E f \in {"ok", "missing"} :
    /\ opts = [AlertWindow |-> quantum, AlertThreshold |-> 0, ReportingInterval |-> 1]
    /\ feed = {}
    /\ scen = NoScenario
    /\ now = 0
    /\ rpc = "unstarted" /\ rclose = FALSE /\ mclose = FALSE /\ stpc = "idle"
    /\ mst = [pc |-> "start", file |-> f, err |-> FALSE] /\ xpc = "idle"
    /\ mu = [w |-> FALSE, r |-> 0]
    /\ cpc = "open" /\ cur = <<>>
    /\ count = 0
    /\ topSections = Empty
    /\ ipHll = {}
    /\ sizeHist = newSizeHist
    /\ statusFreq = newStatusFreq
    /\ hits = <<>>
    /\ buckets = newBuckets(quantum, quantum)
    /\ idx = 0
    /\ qpc = "unstarted" /\ qhit = <<>>
    /\ tickC = FALSE /\ tpc = "unstarted"
    /\ alertC = FALSE /\ apc = "select" /\ alerted = FALSE
    /\ stdout = <<>>
    /\ reportC = FALSE /\ spc = "select" /\ s = newSummary(0)
    /\ file = <<>> /\ rpos = 0 /\ rpart = FALSE /\ rl = <<>> /\ events = 0
    /\ sent = <<>> /\ snaps = <<>>
    /\ quanta = <<0>>

\* the steps of the goroutines
LifeRun ==
  \/ OpenOk \/ OpenFail \/ StartReturn
  \/ ReadLine \/ WaitEvent \/ WaitClosed \/ ReaderExit \/ ReadSend
  \/ ProcessLock \/ ProcessSend \/ ProcessRequest \/ ProcessIP
  \/ ProcessSize \/ ProcessStatus
  \/ QuantizeRecv \/ QuantizeInc
  \/ TickRecv \/ TickUpdate
  \/ AlertRecv \/ AlertEval \/ AlertClose
  \/ ReportRecv \/ ReportClose \/ SummaryRLock
  \/ SummaryTop \/ SummaryIPs \/ SummarySize \/ SummaryStatus
  \/ SummaryLatest \/ SummaryAvg \/ SummaryReturn
  \/ stpc = "closing" /\ StopClose

\* the clock, the writer, and the calls of Stop: by Start after a failure,
\* by the signal handler while the monitor runs
LifeNext ==
  \/ LifeRun
  \/ now < (IF mst.file = "ok" THEN quantum ELSE LifeMaxTime) /\ Advance
  \/ (mst.pc = "running" /\ file = <<>> /\ ~rclose) /\ AppendLine(Pages1)
  \/ mst.pc \in {"running", "stop"} /\ StopReader

\* every goroutine that can take a step takes one; a select with several
\* ready cases takes each of them sooner or later
LifeFairness ==
  /\ WF_vars(OpenOk \/ OpenFail \/ (mst.pc = "stop" /\ StopReader) \/ StartReturn)
  /\ SF_vars(ReaderExit) /\ SF_vars(AlertClose) /\ SF_vars(ReportClose)
  /\ WF_vars(ReadLine \/ ReadSend \/ WaitEvent \/ WaitClosed \/ ReaderExit)
  /\ WF_vars(ProcessLock \/ ProcessSend \/ ProcessRequest \/ ProcessIP
               \/ ProcessSize \/ ProcessStatus)
  /\ WF_vars(QuantizeRecv \/ QuantizeInc) /\ WF_vars(TickRecv \/ TickUpdate)
  /\ WF_vars(AlertRecv \/ AlertEval)
  /\ WF_vars(ReportRecv \/ SummaryRLock \/ SummaryTop \/ SummaryIPs \/ SummarySize
               \/ SummaryStatus \/ SummaryLatest \/ SummaryAvg \/ SummaryReturn)
  /\ WF_vars(stpc = "closing" /\ StopClose)

SpecLife == LifeInit /\ [][LifeNext]_vars /\ LifeFairness

\* every activity has ended: the read loop, collector.Start (and with it
\* Monitor.Start), the quantizer, the averager's ticker loop, the report loop
\* and the alert loop
allTerminated ==
  /\ rpc \in {"unstarted", "done"}
  /\ cpc = "returned"
  /\ mst.pc = "returned"
  /\ qpc \in {"unstarted", "done"}
  /\ tpc \in {"unstarted", "done"}
  /\ spc = "done"
  /\ apc = "done"

\* C23: after Monitor.Stop() every activity eventually terminates (the read
\* loop, the collector's receive loop so that Start returns, the quantizer,
\* the ticker loop, the report loop and the alert loop), and no record handed
\* to the collector is left half processed.
C23_ShutdownComplete ==
  (stpc = "done") ~> (allTerminated /\ cur = <<>> /\ Len(sent) = count)

\* C24: if the log file cannot be opened, the read loop is never started,
\* collector.Start returns without processing any record (and without
\* starting the quantizer), and Monitor.Start stops the monitor, so that the
\* report and the alert loop terminate, and returns a non-nil error.
C24_OpenFailure ==
  /\ [](mst.file = "missing" =>
          /\ rpc = "unstarted" /\ qpc = "unstarted" /\ tpc = "unstarted"
          /\ cpc \in {"open", "returned"}
          /\ count = 0 /\ cur = <<>> /\ sent = <<>> /\ hits = <<>>
          /\ (mst.pc = "returned" => (mst.err /\ stpc = "done")))
  /\ (mst.file = "missing") ~>
       (mst.pc = "returned" /\ mst.err /\ spc = "done" /\ apc = "done")

C24_Witness ==
  /\ mst = [pc |-> "returned", file |-> "missing", err |-> TRUE]
  /\ cpc = "returned" /\ rpc = "unstarted"
  /\ spc = "done" /\ apc = "done"

(***************************************************************************)
(* SpecStop: Monitor.Start together with a call of Monitor.Stop from       *)
(* outside it, at any moment after New.  Start calls Stop itself once      *)
(* collector.Start has returned.  A panic ends the process.                *)
(***************************************************************************)
panicked == stpc = "panic" \/ xpc = "panic"

StopNext ==
  \/ ~panicked /\ LifeRun
  \/ (~panicked /\ now < (IF mst.file = "ok" THEN quantum ELSE LifeMaxTime)) /\ Advance
  \/ (~panicked /\ mst.pc = "running" /\ file = <<>> /\ ~rclose) /\ AppendLine(Pages1)
  \/ (~panicked /\ mst.pc = "stop") /\ StopReader
  \/ ~panicked /\ ExternalStopReader
  \/ ~panicked /\ ExternalStopClose

SpecStop == LifeInit /\ [][StopNext]_vars

\* C31: whatever the interleaving of Monitor.Start with a call of
\* Monitor.Stop from outside, no channel that is closed already is closed
\* again: neither call of Stop panics in close(c.close) or close(m.close).
C31_ClosedOnce == ~panicked

(***************************************************************************)
(* SpecDead: the running pipeline with the averager's mutex written out.   *)
(* A goroutine that calls w.mu.Lock() while the mutex is held waits        *)
(* ("lockwait"); a waiting writer keeps new readers out (sync.RWMutex).    *)
(* The mutex itself is read off the positions of the goroutines: the       *)
(* quantizer and the ticker loop hold it for writing at "locked", the      *)
(* summary holds it for reading inside latest() and average(), the alert   *)
(* loop inside average().                                                  *)
(***************************************************************************)
\* the clock is stopped at DeadMaxTime
DeadMaxTime == 2

\* (a latest() that returns without RUnlock)
wReaders_NoRUnlock ==
  (IF spc \in {"latestR", "avg", "avgR", "window"} THEN 1 ELSE 0)
    + (IF apc = "averageR" THEN 1 ELSE 0)

\* the goroutines between w.mu.RLock() and w.mu.RUnlock()
wReaders ==
  (IF spc \in {"latestR", "avgR"} THEN 1 ELSE 0)
    + (IF apc = "averageR" THEN 1 ELSE 0)

wmu == [w |-> qpc = "locked" \/ tpc = "locked", r |-> wReaders]

\* a call of w.mu.Lock() is waiting
wPending == qpc = "lockwait" \/ tpc = "lockwait"

\* w.mu.RLock() returns
wRLockable == RLockable(wmu) /\ ~wPending

\* quantize: w.mu.Lock(), at once or after a wait
QuantizeLock ==
  /\ qpc \in {"inc", "lockwait"}
  /\ qpc' = (IF Lockable(wmu) THEN "locked" ELSE "lockwait")
  /\ qpc' # qpc
  /\ UNCHANGED <<buckets, idx, qhit, tickC, tpc, quanta>>
  /\ UNCHANGED <<opts, feed, scen, fvars, now, rvars, cvars, alvars, stdout, svars>>

\* tick: w.mu.Lock(), at once or after a wait
TickLock ==
  /\ tpc \in {"update", "lockwait"}
  /\ tpc' = (IF Lockable(wmu) THEN "locked" ELSE "lockwait")
  /\ tpc' # tpc
  /\ UNCHANGED <<buckets, idx, qpc, qhit, tickC, quanta>>
  /\ UNCHANGED <<opts, feed, scen, fvars, now, rvars, cvars, alvars, stdout, svars>>

\* alert: w.mu.RLock() in average()
AlertRLock ==
  /\ apc = "eval"
  /\ wRLockable
  /\ apc' = "averageR"
  /\ UNCHANGED <<alertC, alerted, stdout>>
  /\ UNCHANGED <<opts, feed, scen, fvars, now, rvars, cvars, avars, svars>>

\* summary: w.mu.RLock() in latest() (to = "latestR") and in average()
SummaryWRLock(at, to) ==
  /\ spc = at
  /\ wRLockable
  /\ spc' = to
  /\ UNCHANGED <<reportC, s, snaps>>
  /\ UNCHANGED <<opts, feed, scen, fvars, now, rvars, cvars, avars, alvars, stdout>>

DeadInit ==
  InitState([AlertWindow |-> quantum, AlertThreshold |-> 1, ReportingInterval |-> 2],
            {Log("10.0.0.1", 0, Request(Doc("pages", "1")), 200, 17)}, NoScenario)

\* the steps of the collector, the quantizer, the ticker loop, the report
\* loop and the alert loop
DeadStep ==
  \/ ProcessLock \/ ProcessSend \/ ProcessRequest \/ ProcessIP
  \/ ProcessSize \/ ProcessStatus
  \/ QuantizeRecv \/ QuantizeLock \/ QuantizeIncAt("locked")
  \/ TickRecv \/ TickLock \/ TickUpdateAt("locked")
  \/ AlertRecv \/ AlertRLock \/ AlertEvalAt("averageR")
  \/ ReportRecv \/ SummaryRLock
  \/ SummaryTop \/ SummaryIPs \/ SummarySize \/ SummaryStatus
  \/ SummaryWRLock("latest", "latestR")
  \/ SummaryCopy("latestR", "HitsPerSecond", latest, "avg")
  \/ SummaryWRLock("avg", "avgR")
  \/ SummaryCopy("avgR", "AvgHits", average, "window")
  \/ SummaryReturn

\* the clock and the reader, which hands over one record more than the
\* averager's channel holds
DeadNext ==
  \/ now < DeadMaxTime /\ Advance
  \/ \E l \in feed : count <= HitsCap /\ Deliver(l)
  \/ DeadStep

SpecDead == DeadInit /\ [][DeadNext]_vars

\* an activity of the pipeline is in the middle of its work, or has work
\* at hand
busy ==
  \/ cpc # "range"
  \/ qpc # "recv" \/ hits # <<>>
  \/ tpc # "select" \/ tickC
  \/ apc # "select" \/ alertC
  \/ spc # "select" \/ reportC

\* C32: the running pipeline has no deadlock: whenever the collector, the
\* quantizer, the ticker loop, the report loop or the alert loop is in the
\* middle of its work or has work at hand, one of them can take a step; they
\* all stand still only when each waits for a record or for its timer.
C32_NoDeadlock == busy => ENABLED DeadStep

\* process() waits at the send on the full channel with the collector's lock,
\* the summary waits for that lock, and the ticker loop waits for the
\* averager's mutex, which the alert loop holds
C32_Witness ==
  /\ cpc = "send" /\ mu.w /\ Len(hits) = HitsCap
  /\ spc = "rlock"
  /\ tpc = "lockwait" /\ apc = "averageR"

(***************************************************************************)
(* SpecZero: records with and without a date that time.Parse accepts go    *)
(* through the collector and the quantizer while the ticker loop, the      *)
(* alert loop (threshold 0) and the report loop run.                       *)
(***************************************************************************)
\* the clock is stopped at ZeroMaxTime, the reader after ZeroRecords records
ZeroMaxTime == 2
ZeroRecords == 2

\* a line in Common Log Format whose date is not in the layout
Undated == Line("10.0.0.9", BadDate, Doc("old", "1"), <<"4", "0", "4">>, <<"9", "9">>)

ZeroFeed == {parseLine(Undated), parseLine(Pages1)}

ZeroInit ==
  InitState([AlertWindow |-> quantum, AlertThreshold |-> 0, ReportingInterval |-> 2],
            ZeroFeed, NoScenario)

ZeroNext ==
  \/ now < ZeroMaxTime /\ Advance
  \/ \E l \in feed : count < ZeroRecords /\ Deliver(l)
  \/ ProcessLock \/ ProcessSend \/ ProcessRequest \/ ProcessIP
  \/ ProcessSize \/ ProcessStatus
  \/ QuantizeRecv \/ QuantizeInc
  \/ TickRecv \/ TickUpdate
  \/ AlertRecv \/ AlertEval
  \/ ReportRecv \/ SummaryRLock
  \/ SummaryTop \/ SummaryIPs \/ SummarySize \/ SummaryStatus
  \/ SummaryLatest \/ SummaryAvg \/ SummaryReturn

SpecZero == ZeroInit /\ [][ZeroNext]_vars

\* the records with a parsed date that the collector has received (their
\* status is 200), the one in process() included
datedReceived ==
  statusFreq.Successful
    + (IF cur # <<>> /\ cur[1].timestamp # ZeroTime THEN 1 ELSE 0)

\* the records without one that process() has finished (their status is 404)
undatedProcessed == statusFreq.ClientError

\* C33: a record whose timestamp is the zero value is counted in the total
\* and in the status, size, address and section aggregates, but the quantizer
\* never takes its hit to a ring slot: the slots, latest() and the sums that
\* average() reads count records with a parsed date only, and no alert is
\* printed before such a record has arrived.
C33_ZeroTimeIgnored ==
  /\ parseLine(Undated).timestamp = ZeroTime
  /\ qhit # <<ZeroTime>>
  /\ SumSeq(quanta) <= datedReceived
  /\ latest <= datedReceived
  /\ (alertLines # <<>> => datedReceived > 0)
  /\ (cpc = "range" =>
        /\ count = statusFreq.Successful + undatedProcessed
        /\ countOf(topSections, <<"/", "old">>) = undatedProcessed
        /\ timesIn(merge(sizeHist), 99) = undatedProcessed
        /\ (undatedProcessed > 0 => "10.0.0.9" \in ipHll))

\* two records without a date went through process() and the quantizer, and
\* the alert loop has evaluated the average since
C33_Witness ==
  /\ undatedProcessed = 2 /\ count = 2
  /\ cpc = "range" /\ hits = <<>> /\ qpc = "recv"
  /\ now = alertPeriod /\ ~alertC /\ apc = "select"
  /\ SumSeq(quanta) = 0 /\ alertLines = <<>>

============================================================================
